---- MODULE Spec2Model ----
(***************************************************************************)
(* A model of the wallet's network core:                                   *)
(*   - RpcOptimizer (src/src/utils/rpcOptimizer.ts): the endpoint pool     *)
(*     with health tracking, the TTL cache and the concurrency throttle;   *)
(*   - BlockchainService (src/src/utils/blockchain.ts): gas estimation,    *)
(*     preflight, the submission retry controller and sendTransaction,     *)
(*     calculateMaxTransferAmount.                                         *)
(*                                                                         *)
(* The runtime is single-threaded and cooperative: an action is the code   *)
(* that runs between two suspension points (await) of one async function.  *)
(***************************************************************************)
EXTENDS Integers, Sequences, FiniteSets, TLC

(***************************************************************************)
(* Bounds of the model (not program constants).                            *)
(***************************************************************************)
NumNodes == 2          \* endpoints configured (the source configures 4)
MaxCalls == 5          \* executeRequest calls in one behaviour (pool scenario)
MaxConcurrent == 2     \* executeRequest calls in progress at once (pool scenario)
MaxClock == 2          \* Date.now() ranges over 0..MaxClock
MaxRounds == 2         \* health-check rounds in progress at once
MaxFailures == 4       \* network failures in one behaviour (pool scenario)
MaxHealthCalls == 4    \* executeRequest calls in one behaviour (health scenario)
MaxCacheCalls == 3     \* executeRequest calls in one behaviour (cache scenario)
MaxCacheFailures == 1  \* network failures in one behaviour (cache scenario)
MaxWaiters == 2        \* callers beyond the ceiling (throttle scenario)
MaxThrottleFailures == 2 \* network failures in one behaviour (throttle scenario)
MaxErrorCalls == 4     \* executeRequest calls in one behaviour (error scenario)
WeiPerEther == 10      \* wei in one ether (the source: 10^18)

(***************************************************************************)
(* Program constants.                                                      *)
(***************************************************************************)
MaxActive == 5         \* waitForQueueSlot / processQueue ceiling
UnhealthyAt == 3       \* errorCount that marks a node unhealthy
CacheSweepSize == 1000 \* setCache sweeps expired entries at this size
GasPriceTtl == 15000   \* getGasPrice's default cacheTime
TokenInfoTtl == 300000 \* getTokenInfo's default cacheTime
MaxRetries == 3        \* retryTransaction's maxRetries
TxBaseDelay == 1000    \* retryTransaction's baseDelay, in ms
ReadMaxRetries == 3    \* REQUEST_CONFIG.maxRetries
BaseDelay == 1000      \* REQUEST_CONFIG.baseDelay, in ms
MaxDelay == 30000      \* REQUEST_CONFIG.maxDelay, in ms
SilenceFallbackGasLimit == 300000 \* estimateSilenceGas's gas limit on failure
MaxHashes == 2         \* hashes in one verifyTransactions call
MaxQueued == 1         \* callers beyond the throttle's ceiling
MaxStaleCalls == 4     \* calls in the stale-snapshot scenario
MaxStaleFailures == 7  \* failed attempts in the stale-snapshot scenario
MaxQueueFailures == 1  \* failed attempts in the queue scenario
MaxReads == 3          \* polling iterations of one monitor
MaxTicks == 2          \* interval ticks of one monitoring session
MaxWallClock == 3      \* wall-clock ticks of HoursPerTick hours
HoursPerTick == 12     \* hours in one tick of the wall clock
ValidityHours == 24    \* isContractValidated: hoursDiff < 24
Polygon == 137         \* AkasaDAOService.networkId
Ethereum == 1          \* another network id

VARIABLES
  nodes,          \* RpcOptimizer.nodes: 1..NumNodes -> RpcNode (configured order)
  cache,          \* RpcOptimizer.cache: key -> [data, timestamp, ttl]
  requestQueue,   \* RpcOptimizer.requestQueue: the callers whose resolver is queued
  activeRequests, \* RpcOptimizer.activeRequests
  procs,          \* the executeRequest invocations, by order of invocation
  orphanCalls,    \* calls of a rejected Promise.all that are still on the wire
  healthRounds,   \* performHealthCheck invocations: the probe each one awaits
  now,            \* Date.now()
  consecFails,    \* history: per node, failed attempts since its last success
  waitOrder,      \* history: the callers waiting for a slot, in arrival order
  ev,             \* history: what the last step did
  failedAttempts, \* history: the attempts that have failed so far
  tx,             \* BlockchainService: the sendTransaction call in progress
  maxTransfer,    \* BlockchainService: the calculateMaxTransferAmount call
  read,           \* BlockchainService: the retryWithBackoff call in progress
  silence,        \* AkasaDAOService: the estimateSilenceGas call
  verifier,       \* TransactionVerifier: the verifyTransactions call
  contracts,      \* localStorage 'validated_contracts', the wall clock, and the
                  \* validateAndCacheContract call
  monitor,        \* BlockchainService: the closure of one monitorBalance call
  auto            \* MonitorPage: the monitoring interval, its callbacks in
                  \* progress, the wallet store and the wallet's balance

rpcVars == <<nodes, cache, requestQueue, activeRequests, procs, orphanCalls,
             healthRounds, now, consecFails, waitOrder, ev, failedAttempts>>

\* The services beside BlockchainService.
extraVars == <<silence, verifier, contracts, monitor, auto>>

\* BlockchainService with its pool.
coreVars == <<rpcVars, tx, maxTransfer, read>>

otherThanRpc == <<tx, maxTransfer, read, extraVars>>

vars == <<rpcVars, otherThanRpc>>

NodeIds == 1..NumNodes

(***************************************************************************)
(* Inputs.                                                                 *)
(***************************************************************************)
Wallets == {"w1"}
Tokens == {"t1"}
CacheTimes == {0, 1}            \* ttl, in clock units
Undefined == 0 - 1              \* a cacheTime argument that was not passed
CacheTimeArgs == CacheTimes \cup {Undefined}
NetErrors == {"timeout", "server error"}  \* messages of a failed network call

\* The operations of executeRequest's switch; any other string is unknown.
KnownOps == {"getBalance", "getGasPrice", "getTokenInfo", "getTokenBalance"}

ParamsOf(op) ==
  CASE op = "getBalance" -> {<<a>> : a \in Wallets}
    [] op = "getGasPrice" -> {<<>>}
    [] op = "getTokenInfo" -> {<<t>> : t \in Tokens}
    [] op = "getTokenBalance" -> {<<t, a>> : t \in Tokens, a \in Wallets}
    [] OTHER -> {<<>>}

\* The network calls one dispatch of the operation puts on the wire at once:
\* getTokenInfo awaits Promise.all of name(), symbol(), decimals().
SubCalls(op) == IF op = "getTokenInfo" THEN 3 ELSE 1

Range(s) == {s[i] : i \in DOMAIN s}

(***************************************************************************)
(* The cache.                                                              *)
(***************************************************************************)
getCacheKey(op, params) == <<op, params>>

Without(ch, keys) == [k \in (DOMAIN ch) \ keys |-> ch[k]]

Expired(e, t) == t - e.timestamp > e.ttl

\* getFromCache without the read-time expiry check.
getFromCacheStale(ch, key, t) ==
  IF key \notin DOMAIN ch
    THEN [hit |-> FALSE, cache |-> ch]
    ELSE [hit |-> TRUE, cache |-> ch, data |-> ch[key].data,
          timestamp |-> ch[key].timestamp, ttl |-> ch[key].ttl]

\* getFromCache finding nothing.
getFromCacheNever(ch, key, t) == [hit |-> FALSE, cache |-> ch]

\* getFromCache: the value (hit) and the cache it leaves (an expired entry is deleted).
getFromCache(ch, key, t) ==
  IF key \notin DOMAIN ch
    THEN [hit |-> FALSE, cache |-> ch]
    ELSE IF Expired(ch[key], t)
      THEN [hit |-> FALSE, cache |-> Without(ch, {key})]
      ELSE [hit |-> TRUE, cache |-> ch, data |-> ch[key].data,
            timestamp |-> ch[key].timestamp, ttl |-> ch[key].ttl]

setCache(ch, key, data, ttl, t) ==
  LET swept == IF Cardinality(DOMAIN ch) >= CacheSweepSize
                 THEN Without(ch, {k \in DOMAIN ch : Expired(ch[k], t)})
                 ELSE ch
      e == [data |-> data, timestamp |-> t, ttl |-> ttl]
  IN [k \in (DOMAIN swept) \cup {key} |-> IF k = key THEN e ELSE swept[k]]

clearCacheForOperation(ch, op) == Without(ch, {k \in DOMAIN ch : k[1] = op})

\* getBalance's second purge: every key that names the operation or the address.
PurgeBalance(ch, address) ==
  Without(ch, {k \in DOMAIN ch : k[1] = "getBalance" \/ address \in Range(k[2])})

(***************************************************************************)
(* The throttle.                                                           *)
(***************************************************************************)
\* waitForQueueSlot, up to its suspension: the caller is queued or admitted.
waitForQueueSlot(active, queue, c) ==
  IF active >= MaxActive
    THEN [active |-> active, queue |-> Append(queue, c), admitted |-> FALSE]
    ELSE [active |-> active + 1, queue |-> queue, admitted |-> TRUE]

\* processQueue that wakes nobody.
processQueueLost(active, queue) == [active |-> active, queue |-> queue, woken |-> 0]

\* processQueue taking the resolver queued last (pop instead of shift).
processQueueLifo(active, queue) ==
  IF Len(queue) > 0 /\ active < MaxActive
    THEN [active |-> active + 1, queue |-> SubSeq(queue, 1, Len(queue) - 1),
          woken |-> queue[Len(queue)]]
    ELSE [active |-> active, queue |-> queue, woken |-> 0]

\* processQueue: the next queued resolver runs (activeRequests++, resolve).
processQueue(active, queue) ==
  IF Len(queue) > 0 /\ active < MaxActive
    THEN [active |-> active + 1, queue |-> Tail(queue), woken |-> Head(queue)]
    ELSE [active |-> active, queue |-> queue, woken |-> 0]

\* A finally block that keeps the slot.
ReleaseSlotKept(active, queue) == processQueue(active, queue)

\* The finally block of one attempt.
ReleaseSlot(active, queue) == processQueue(active - 1, queue)

(***************************************************************************)
(* The endpoints.                                                          *)
(***************************************************************************)
\* Of RpcNode the model keeps the fields the program reads back: url, name, weight,
\* maxRequestsPerMinute, currentRequests, lastResetTime, responseTime and lastUsed
\* are written (or configured) and read by no branch.
InitNode == [isHealthy |-> TRUE, errorCount |-> 0]

\* The candidate list without the isHealthy filter.
AllNodes(ns) == [i \in NodeIds |-> i]

\* The configured weight of the nodes, in configured order (the model keeps the
\* first NumNodes of them).
NodeWeights == <<3, 2, 2, 1>>

weight(n) == NodeWeights[n]

\* The healthy nodes in reverse configured order.
HealthyNodesReversed(ns) ==
  LET h == SelectSeq([i \in NodeIds |-> i], LAMBDA i : ns[i].isHealthy)
  IN [k \in 1..Len(h) |-> h[Len(h) + 1 - k]]

HealthyNodes(ns) == SelectSeq([i \in NodeIds |-> i], LAMBDA i : ns[i].isHealthy)

NodeSucceeded(n) ==
  [n EXCEPT !.errorCount = IF @ - 1 > 0 THEN @ - 1 ELSE 0]

NodeFailed(n) ==
  LET count == n.errorCount + 1
  IN [n EXCEPT !.errorCount = count,
               !.isHealthy = IF count >= UnhealthyAt THEN FALSE ELSE @]

\* A probe that restores the flag and keeps the counter.
NodeProbedCounting(n) == [n EXCEPT !.isHealthy = TRUE]

NodeProbed(n) == [n EXCEPT !.isHealthy = TRUE, !.errorCount = 0]

(***************************************************************************)
(* executeRequest.                                                         *)
(***************************************************************************)
\* An admitted caller's continuation is a queued microtask: it runs before the
\* event loop delivers the next network answer or timer.
NoMicrotask == \A c \in DOMAIN procs : procs[c].pc # "admitted"

NoProc == [pc |-> "done", op |-> "none", params |-> <<>>, cacheTime |-> 0,
           cands |-> <<>>, idx |-> 0, pending |-> 0, lastError |-> "none"]

Started == DOMAIN procs
InProgress == {c \in Started : procs[c].pc # "done"}
NetCallsInFlight ==
  LET RECURSIVE Sum(_)
      Sum(S) == IF S = {} THEN 0
                ELSE LET c == CHOOSE x \in S : TRUE IN procs[c].pending + Sum(S \ {c})
  IN orphanCalls + Sum(Started)

Grow(ps, c, p) == [x \in (DOMAIN ps) \cup {c} |-> IF x = c THEN p ELSE ps[x]]

Wake(ps, w) == IF w = 0 THEN ps ELSE [ps EXCEPT ![w].pc = "admitted"]

Dequeued(order, w) == SelectSeq(order, LAMBDA x : x # w)

\* The public method a caller invoked and the cacheTime it passed.
PublicCall(api, cacheTime) == [api |-> api, cacheTime |-> cacheTime]

\* executeRequest from its call to its first suspension, on the cache ch the
\* public wrapper left: cache lookup, candidate snapshot, first waitForQueueSlot.
ExecuteRequest(op, params, cacheTime, ch, call) ==
  LET c == Cardinality(Started) + 1
      key == getCacheKey(op, params)
      look == IF cacheTime > 0 THEN getFromCache(ch, key, now)
              ELSE [hit |-> FALSE, cache |-> ch]
      healthy == HealthyNodes(nodes)
      slot == waitForQueueSlot(activeRequests, requestQueue, c)
  IN IF look.hit
       THEN /\ cache' = look.cache
            /\ procs' = Grow(procs, c, NoProc)
            /\ ev' = [kind |-> "hit", c |-> c, call |-> call, key |-> key, data |-> look.data,
                      timestamp |-> look.timestamp, ttl |-> look.ttl, at |-> now]
            /\ UNCHANGED <<nodes, requestQueue, activeRequests, waitOrder>>
       ELSE IF healthy = <<>>
         THEN /\ cache' = look.cache
              /\ procs' = Grow(procs, c, NoProc)
              /\ ev' = [kind |-> "noNodes", c |-> c, call |-> call]
              /\ UNCHANGED <<nodes, requestQueue, activeRequests, waitOrder>>
         ELSE /\ cache' = look.cache
              /\ procs' = Grow(procs, c,
                   [pc |-> IF slot.admitted THEN "admitted" ELSE "queued",
                    op |-> op, params |-> params, cacheTime |-> cacheTime,
                    cands |-> healthy, idx |-> 1, pending |-> 0,
                    lastError |-> "none"])
              /\ activeRequests' = slot.active
              /\ requestQueue' = slot.queue
              /\ waitOrder' = IF slot.admitted THEN waitOrder ELSE Append(waitOrder, c)
              /\ ev' = [kind |-> "call", c |-> c, call |-> call,
                        expired |-> cacheTime > 0 /\ key \in DOMAIN ch /\ Expired(ch[key], now)]
              /\ UNCHANGED nodes

\* The error thrown after the loop, without the cause.
RaisedErrorGeneric(lastError) == <<"network request failed", "unknown error">>

\* The error thrown after the loop: its message ends with lastError's message.
RaisedError(lastError) == <<"network request failed", lastError>>

\* The catch and finally blocks of one attempt, then the loop's next iteration
\* up to its suspension, or the throw after the loop.
AttemptFailed(c, ns, err) ==
  LET p == procs[c]
      n == p.cands[p.idx]
      rel == ReleaseSlot(activeRequests, requestQueue)
      more == p.idx < Len(p.cands)
      slot == waitForQueueSlot(rel.active, rel.queue, c)
      woken == Wake(procs, rel.woken)
  IN /\ nodes' = [ns EXCEPT ![n] = NodeFailed(@)]
     /\ failedAttempts' = failedAttempts + 1
     /\ consecFails' = [consecFails EXCEPT ![n] = IF @ < UnhealthyAt THEN @ + 1 ELSE @]
     /\ IF more
          THEN /\ procs' = [woken EXCEPT ![c] =
                     [p EXCEPT !.pc = IF slot.admitted THEN "admitted" ELSE "queued",
                               !.idx = @ + 1, !.pending = 0, !.lastError = err]]
               /\ activeRequests' = slot.active
               /\ requestQueue' = slot.queue
               /\ waitOrder' = IF slot.admitted THEN Dequeued(waitOrder, rel.woken)
                               ELSE Append(Dequeued(waitOrder, rel.woken), c)
               /\ ev' = [kind |-> "step"]
          ELSE /\ procs' = [woken EXCEPT ![c] = NoProc]
               /\ activeRequests' = rel.active
               /\ requestQueue' = rel.queue
               /\ waitOrder' = Dequeued(waitOrder, rel.woken)
               /\ ev' = [kind |-> "allFailed", c |-> c, failure |-> err,
                         error |-> RaisedError([p EXCEPT !.lastError = err].lastError)]

\* The continuation of waitForQueueSlot: the attempt's bookkeeping and the switch.
\* An unknown operation throws inside the try before any call is made.
Dispatch(c) ==
  /\ c \in Started
  /\ procs[c].pc = "admitted"
  /\ LET p == procs[c]
         n == p.cands[p.idx]
     IN IF p.op \in KnownOps
          THEN /\ nodes' = nodes
               /\ procs' = [procs EXCEPT ![c].pc = "inflight",
                                         ![c].pending = SubCalls(p.op)]
               /\ ev' = [kind |-> "step"]
               /\ UNCHANGED <<cache, requestQueue, activeRequests, orphanCalls,
                              consecFails, waitOrder, failedAttempts>>
          ELSE /\ AttemptFailed(c, nodes, "unknown operation")
               /\ UNCHANGED <<cache, orphanCalls>>
  /\ UNCHANGED <<healthRounds, now, otherThanRpc>>

\* One call of the attempt answers. When all have answered: the node's success
\* bookkeeping, the cache store, the finally block, return.
CallSucceeds(c, v) ==
  /\ NoMicrotask
  /\ c \in Started
  /\ procs[c].pc = "inflight"
  /\ LET p == procs[c]
         n == p.cands[p.idx]
         rel == ReleaseSlot(activeRequests, requestQueue)
     IN IF p.pending > 1
          THEN /\ procs' = [procs EXCEPT ![c].pending = @ - 1]
               /\ ev' = [kind |-> "step"]
               /\ UNCHANGED <<nodes, cache, requestQueue, activeRequests,
                              consecFails, waitOrder>>
          ELSE /\ nodes' = [nodes EXCEPT ![n] = NodeSucceeded(@)]
               /\ consecFails' = [consecFails EXCEPT ![n] = 0]
               /\ cache' = IF p.cacheTime > 0
                             THEN setCache(cache, getCacheKey(p.op, p.params), v,
                                           p.cacheTime, now)
                             ELSE cache
               /\ procs' = [Wake(procs, rel.woken) EXCEPT ![c] = NoProc]
               /\ activeRequests' = rel.active
               /\ requestQueue' = rel.queue
               /\ waitOrder' = Dequeued(waitOrder, rel.woken)
               /\ ev' = [kind |-> "step"]
  /\ UNCHANGED <<orphanCalls, healthRounds, now, failedAttempts, otherThanRpc>>

\* One call of the attempt fails: Promise.all rejects at once and the attempt's
\* other calls stay on the wire.
CallFails(c, err, maxFailures) ==
  /\ NoMicrotask
  /\ failedAttempts < maxFailures
  /\ c \in Started
  /\ procs[c].pc = "inflight"
  /\ orphanCalls' = orphanCalls + procs[c].pending - 1
  /\ AttemptFailed(c, nodes, err)
  /\ UNCHANGED <<cache, healthRounds, now, otherThanRpc>>

OrphanCompletes ==
  /\ NoMicrotask
  /\ orphanCalls > 0
  /\ orphanCalls' = orphanCalls - 1
  /\ ev' = [kind |-> "step"]
  /\ UNCHANGED <<nodes, cache, requestQueue, activeRequests, procs, healthRounds,
                 now, consecFails, waitOrder, failedAttempts, otherThanRpc>>

(***************************************************************************)
(* The public API. maxCalls, maxConc: how many invocations a behaviour     *)
(* holds and how many may be in progress at once.                          *)
(***************************************************************************)
CanCall(maxCalls, maxConc) ==
  /\ Cardinality(Started) < maxCalls
  /\ Cardinality(InProgress) < maxConc

\* executeRequest(operation, params, cacheTime), called directly.
CallExecuteRequest(op, params, cacheTime, maxCalls, maxConc) ==
  /\ CanCall(maxCalls, maxConc)
  /\ ExecuteRequest(op, params, cacheTime, cache, PublicCall("executeRequest", cacheTime))
  /\ UNCHANGED <<orphanCalls, healthRounds, now, consecFails, failedAttempts, otherThanRpc>>

\* getBalance(address): both purges, then executeRequest with cacheTime 0.
GetBalance(address, maxCalls, maxConc) ==
  /\ CanCall(maxCalls, maxConc)
  /\ ExecuteRequest("getBalance", <<address>>, 0,
                    PurgeBalance(clearCacheForOperation(cache, "getBalance"), address),
                    PublicCall("getBalance", Undefined))
  /\ UNCHANGED <<orphanCalls, healthRounds, now, consecFails, failedAttempts, otherThanRpc>>

\* BlockchainService.getBalance(address): rpcOptimizer.clearCache(), then
\* rpcOptimizer.getBalance(address, 0).
ServiceGetBalance(address, maxCalls, maxConc) ==
  /\ CanCall(maxCalls, maxConc)
  /\ ExecuteRequest("getBalance", <<address>>, 0,
                    PurgeBalance(clearCacheForOperation(<<>>, "getBalance"), address),
                    PublicCall("BlockchainService.getBalance", Undefined))
  /\ UNCHANGED <<orphanCalls, healthRounds, now, consecFails, failedAttempts, otherThanRpc>>

\* cacheTime || fallback: 0 and undefined are both falsy.
OrElse(cacheTime, fallback) == IF cacheTime # 0 /\ cacheTime # Undefined THEN cacheTime ELSE fallback

\* getGasPrice(cacheTime): cacheTime || 15000.
GetGasPrice(cacheTime, maxCalls, maxConc) ==
  /\ CanCall(maxCalls, maxConc)
  /\ ExecuteRequest("getGasPrice", <<>>,
                    OrElse(cacheTime, GasPriceTtl), cache,
                    PublicCall("getGasPrice", cacheTime))
  /\ UNCHANGED <<orphanCalls, healthRounds, now, consecFails, failedAttempts, otherThanRpc>>

\* getTokenInfo(tokenAddress, cacheTime): cacheTime || 300000.
GetTokenInfo(token, cacheTime, maxCalls, maxConc) ==
  /\ CanCall(maxCalls, maxConc)
  /\ ExecuteRequest("getTokenInfo", <<token>>,
                    OrElse(cacheTime, TokenInfoTtl), cache,
                    PublicCall("getTokenInfo", cacheTime))
  /\ UNCHANGED <<orphanCalls, healthRounds, now, consecFails, failedAttempts, otherThanRpc>>

\* getTokenBalance(tokenAddress, address, cacheTime): purge, then cacheTime || 0.
GetTokenBalance(token, address, cacheTime, maxCalls, maxConc) ==
  /\ CanCall(maxCalls, maxConc)
  /\ ExecuteRequest("getTokenBalance", <<token, address>>, OrElse(cacheTime, 0),
                    clearCacheForOperation(cache, "getTokenBalance"),
                    PublicCall("getTokenBalance", cacheTime))
  /\ UNCHANGED <<orphanCalls, healthRounds, now, consecFails, failedAttempts, otherThanRpc>>

\* clearCache().
ClearCache ==
  /\ cache # <<>>
  /\ cache' = <<>>
  /\ ev' = [kind |-> "step"]
  /\ UNCHANGED <<nodes, requestQueue, activeRequests, procs, orphanCalls,
                 healthRounds, now, consecFails, waitOrder, failedAttempts, otherThanRpc>>

(***************************************************************************)
(* The health check: performHealthCheck walks the nodes in order and       *)
(* awaits a getBlockNumber() probe on each node it finds unhealthy.        *)
(***************************************************************************)
\* The loop without the isHealthy test: the next node after `from`.
NextNode(ns, from) == IF from < NumNodes THEN from + 1 ELSE 0

\* The next node after `from` that the loop finds unhealthy (0: the loop ends).
NextUnhealthy(ns, from) ==
  LET S == {i \in NodeIds : i > from /\ ~ns[i].isHealthy}
  IN IF S = {} THEN 0 ELSE CHOOSE i \in S : \A j \in S : i <= j

\* A round: the node it is probing (0: no round) and the age of the probe, the
\* timer periods it is known to have touched. The first probe of a round starts
\* with the period (age 1), a later one within it (age 0); every firing of the
\* timer adds one. A probe of age 2 has lasted a whole period of 60000 ms.
NoRound == [node |-> 0, age |-> 0]

Aged(round) == IF round.node # 0 /\ round.age < 2 THEN [round EXCEPT !.age = @ + 1] ELSE round

\* The interval timer fires: a round starts and suspends at its first probe, or
\* ends at once when it finds no node unhealthy.
StartHealthCheck(r) ==
  /\ NoMicrotask
  /\ healthRounds[r].node = 0
  /\ NextUnhealthy(nodes, 0) # 0 \/ \E o \in DOMAIN healthRounds : healthRounds[o].node # 0
  /\ healthRounds' = [o \in DOMAIN healthRounds |->
                        IF o = r THEN [node |-> NextUnhealthy(nodes, 0),
                                       age |-> IF NextUnhealthy(nodes, 0) # 0 THEN 1 ELSE 0]
                        ELSE Aged(healthRounds[o])]
  /\ ev' = [kind |-> "step"]
  /\ UNCHANGED <<nodes, cache, requestQueue, activeRequests, procs, orphanCalls,
                 now, consecFails, waitOrder, failedAttempts, otherThanRpc>>

\* A probe answers: within 5000 ms ("fast", which a probe that has lasted a whole
\* period cannot), later ("slow"), or it throws.
ProbeCompletes(r, outcome) ==
  /\ NoMicrotask
  /\ healthRounds[r].node # 0
  /\ outcome = "fast" => healthRounds[r].age < 2
  /\ LET n == healthRounds[r].node
         ns == IF outcome = "fast" THEN [nodes EXCEPT ![n] = NodeProbed(@)] ELSE nodes
     IN /\ nodes' = ns
        /\ healthRounds' = [healthRounds EXCEPT ![r] = [node |-> NextUnhealthy(ns, n),
                                                        age |-> 0]]
        /\ ev' = [kind |-> "step"]
  /\ UNCHANGED <<cache, requestQueue, activeRequests, procs, orphanCalls,
                 now, consecFails, waitOrder, failedAttempts, otherThanRpc>>

\* Time passes.
Tick ==
  /\ now < MaxClock
  /\ now' = now + 1
  /\ ev' = [kind |-> "step"]
  /\ UNCHANGED <<nodes, cache, requestQueue, activeRequests, procs, orphanCalls,
                 healthRounds, consecFails, waitOrder, failedAttempts, otherThanRpc>>

(***************************************************************************)
(* BlockchainService: inputs and network answers.                          *)
(***************************************************************************)
\* Addresses: a malformed string, an externally owned account, a contract, and
\* the wallet's own address.
Addresses == {"bad", "0xEoa", "0xContract", "0xSelf"}

isAddress(a) == a # "bad"

\* provider.getCode(a).
CodeAt(a) == IF a = "0xContract" THEN "0x60" ELSE "0x"

GasLimits == {3, 5}                  \* provider.estimateGas answers

FeeDatas == {[maxFeePerGas |-> 4, maxPriorityFeePerGas |-> 1, gasPrice |-> 3],
             [maxFeePerGas |-> 0, maxPriorityFeePerGas |-> 0, gasPrice |-> 3],
             [maxFeePerGas |-> 0, maxPriorityFeePerGas |-> 0, gasPrice |-> 0]}

BalancesWei == {0, 12, 40, 200}      \* the wallet's balance on the chain

\* customGasConfig; given FALSE stands for undefined, gasLimit 0 for no gasLimit.
NoCustom == [given |-> FALSE, gasMultiplier |-> 10, gasLimit |-> 0, crazyMode |-> FALSE]

\* gasStrategy with customGasConfig (multipliers in tenths).
GasChoices ==
  {<<s, NoCustom>> : s \in {"fast", "standard", "safe", "custom"}}
  \cup {<<"custom", [given |-> TRUE, gasMultiplier |-> 20, gasLimit |-> 0, crazyMode |-> FALSE]>>,
        <<"custom", [given |-> TRUE, gasMultiplier |-> 20, gasLimit |-> 4, crazyMode |-> TRUE]>>}

(***************************************************************************)
(* BlockchainService: amounts, messages, gas.                              *)
(***************************************************************************)
\* A decimal string as ethers.formatEther writes it and ethers.parseEther reads
\* it: sign, whole part, fraction in units of 1/WeiPerEther. nan marks a string
\* parseEther rejects.
Decimal(neg, whole, frac) == [nan |-> FALSE, neg |-> neg, whole |-> whole, frac |-> frac]

NotANumber == [nan |-> TRUE, neg |-> FALSE, whole |-> 0, frac |-> 0]

Abs(x) == IF x < 0 THEN 0 - x ELSE x

formatEther(wei) == Decimal(wei < 0, Abs(wei) \div WeiPerEther, Abs(wei) % WeiPerEther)

parseEther(d) == (IF d.neg THEN 0 - 1 ELSE 1) * (d.whole * WeiPerEther + d.frac)

\* An error message is the set of the words it contains.
LowerWord(w) ==
  CASE w = "NONCE_EXPIRED" -> "nonce_expired"
    [] w = "REPLACEMENT_UNDERPRICED" -> "replacement_underpriced"
    [] w = "UNPREDICTABLE_GAS_LIMIT" -> "unpredictable_gas_limit"
    [] w = "INSUFFICIENT_FUNDS" -> "insufficient_funds"
    [] w = "CALL_EXCEPTION" -> "call_exception"
    [] w = "Timeout" -> "timeout"
    [] w = "Too Many Requests" -> "too many requests"
    [] w = "Rate limit" -> "rate limit"
    [] w = "0xAbC" -> "0xabc"
    [] OTHER -> w

toLowerCase(msg) == {LowerWord(w) : w \in msg}

retryableErrors == {"NONCE_EXPIRED", "REPLACEMENT_UNDERPRICED", "UNPREDICTABLE_GAS_LIMIT",
                    "network", "timeout", "rate limit", "temporary"}

isRetryableError(msg) == \E keyword \in retryableErrors : LowerWord(keyword) \in toLowerCase(msg)

\* The messages of the errors the network and the signer raise.
NonceExpired == {"nonce", "used", "NONCE_EXPIRED"}
Underpriced == {"REPLACEMENT_UNDERPRICED"}
Unpredictable == {"UNPREDICTABLE_GAS_LIMIT"}
TimedOut == {"request", "Timeout"}
InsufficientFunds == {"INSUFFICIENT_FUNDS"}
CallException == {"CALL_EXCEPTION"}
SendErrors == {NonceExpired, Underpriced, Unpredictable, TimedOut, InsufficientFunds,
               CallException}
ReadErrors == {TimedOut, {"server", "error"}}

\* A function's outcome: it returned the value, or it threw the error (none: the
\* value that stands for no value).
Returned(v) == [threw |-> FALSE, value |-> v, error |-> {}]
Threw(e, none) == [threw |-> TRUE, value |-> none, error |-> e]

\* GAS_STRATEGIES and gasMultiplier, in tenths.
GAS_STRATEGIES == [fast |-> 15, standard |-> 12, safe |-> 10, custom |-> 10]

\* BigInt(Math.floor(Number(x) * multiplier)).
Times(x, tenths) == (x * tenths) \div 10

\* The table read with fast and safe exchanged.
MultiplierSwapped(gasStrategy, customGasConfig) ==
  IF gasStrategy = "custom" /\ customGasConfig.given
    THEN IF customGasConfig.crazyMode
           THEN (IF customGasConfig.gasMultiplier > 50 THEN customGasConfig.gasMultiplier ELSE 50)
           ELSE customGasConfig.gasMultiplier
    ELSE IF gasStrategy = "fast" THEN GAS_STRATEGIES["safe"]
    ELSE IF gasStrategy = "safe" THEN GAS_STRATEGIES["fast"]
    ELSE GAS_STRATEGIES[gasStrategy]

Multiplier(gasStrategy, customGasConfig) ==
  IF gasStrategy = "custom" /\ customGasConfig.given
    THEN IF customGasConfig.crazyMode
           THEN (IF customGasConfig.gasMultiplier > 50 THEN customGasConfig.gasMultiplier ELSE 50)
           ELSE customGasConfig.gasMultiplier
    ELSE GAS_STRATEGIES[gasStrategy]

\* A GasEstimate; 0 stands for an absent maxFeePerGas / maxPriorityFeePerGas.
\* estimateGas and estimateTokenGas build it with the same code.
GasEstimateOf(gasLimit, feeData, gasStrategy, customGasConfig) ==
  LET multiplier == Multiplier(gasStrategy, customGasConfig)
      finalGasLimit == IF gasStrategy = "custom" /\ customGasConfig.given
                          /\ customGasConfig.gasLimit # 0
                         THEN customGasConfig.gasLimit ELSE gasLimit
  IN IF feeData.maxFeePerGas # 0 /\ feeData.maxPriorityFeePerGas # 0
       THEN LET maxFeePerGas == Times(feeData.maxFeePerGas, multiplier)
            IN [gasLimit |-> finalGasLimit, gasPrice |-> maxFeePerGas,
                maxFeePerGas |-> maxFeePerGas,
                maxPriorityFeePerGas |-> Times(feeData.maxPriorityFeePerGas, multiplier),
                totalCost |-> finalGasLimit * maxFeePerGas]
       ELSE LET gasPrice == Times(feeData.gasPrice, multiplier)
            IN [gasLimit |-> finalGasLimit, gasPrice |-> gasPrice,
                maxFeePerGas |-> 0, maxPriorityFeePerGas |-> 0,
                totalCost |-> finalGasLimit * gasPrice]

NoGas == [gasLimit |-> 0, gasPrice |-> 0, maxFeePerGas |-> 0, maxPriorityFeePerGas |-> 0,
          totalCost |-> 0]

NoFeeData == [maxFeePerGas |-> 0, maxPriorityFeePerGas |-> 0, gasPrice |-> 0]

\* What the network answers to estimateGas's two calls: gas limit and fee data,
\* or the error that retryWithBackoff finally lets through.
GasAnswers ==
  {[fails |-> FALSE, error |-> {}, gasLimit |-> g, feeData |-> f] :
     g \in GasLimits, f \in FeeDatas}
  \cup {[fails |-> TRUE, error |-> e, gasLimit |-> 0,
         feeData |-> NoFeeData] : e \in ReadErrors}

estimateGas(wallet, amount, gasStrategy, customGasConfig, answer) ==
  IF ~wallet THEN Threw({"wallet", "not", "initialised"}, NoGas)
  ELSE IF amount.nan THEN Threw({"invalid", "number"}, NoGas)
  ELSE IF answer.fails THEN Threw(answer.error, NoGas)
  ELSE Returned(GasEstimateOf(answer.gasLimit, answer.feeData, gasStrategy, customGasConfig))

\* estimateTokenGas: every failure is rethrown as one fixed error.
estimateTokenGas(wallet, gasStrategy, customGasConfig, answer) ==
  IF ~wallet \/ answer.fails THEN Threw({"token", "gas", "estimate", "failed"}, NoGas)
  ELSE Returned(GasEstimateOf(answer.gasLimit, answer.feeData, gasStrategy, customGasConfig))

(***************************************************************************)
(* BlockchainService: preflightTransaction.                                *)
(***************************************************************************)
Amounts == {NotANumber, Decimal(FALSE, 0, 0), Decimal(FALSE, 0, 5), Decimal(FALSE, 1, 0)}

\* BlockchainService.getBalance(): the decimal string of the pool's answer, or
\* the pool's error.
BalanceAnswers ==
  {Returned(formatEther(b)) : b \in BalancesWei}
  \cup {Threw(e, formatEther(0)) : e \in ReadErrors}

\* What the network answers to the calls of one preflight.
PreflightAnswers ==
  [codeFails : BOOLEAN, receiveOk : BOOLEAN, gas : GasAnswers, balance : BalanceAnswers,
   network : {"ok", "zero price", "throws"}, nonceOk : BOOLEAN]

\* The three shapes of preflight's return statements.
Blocked(warnings, errors) ==
  [isValid |-> FALSE, warnings |-> warnings, errors |-> errors,
   hasGas |-> FALSE, gasEstimate |-> NoGas]

BlockedWithGas(warnings, errors, gasEstimate) ==
  [isValid |-> FALSE, warnings |-> warnings, errors |-> errors,
   hasGas |-> TRUE, gasEstimate |-> gasEstimate]

\* The final return statement with warnings counted as blocking.
PassedWithoutWarnings(warnings, errors, gasEstimate) ==
  [isValid |-> Len(errors) = 0 /\ Len(warnings) = 0, warnings |-> warnings,
   errors |-> errors, hasGas |-> TRUE, gasEstimate |-> gasEstimate]

Passed(warnings, errors, gasEstimate) ==
  [isValid |-> Len(errors) = 0, warnings |-> warnings, errors |-> errors,
   hasGas |-> TRUE, gasEstimate |-> gasEstimate]

\* The catch block: the thrown message becomes the one error.
PreflightThrew(warnings, message) ==
  Blocked(warnings, <<{"preflight", "failed"} \cup message>>)

\* The balance check without the gas cost.
InsufficientForValue(balanceWei, value, gasEstimate) == balanceWei < value

\* The balance check.
Insufficient(balanceWei, value, gasEstimate) == balanceWei < value + gasEstimate.totalCost

\* The 20% headroom for a contract recipient.
WithHeadroom(gasEstimate) == [gasEstimate EXCEPT !.gasLimit = Times(@, 12)]

\* preflightTransaction, with the answers of its awaited calls. The result and
\* the balance its check read (-1: the check was not reached).
preflightTransaction(wallet, to, amount, gasStrategy, customGasConfig, ans) ==
  LET value == parseEther(amount)
      isContract == CodeAt(to) # "0x"
      w4 == IF ~isContract THEN <<>>
            ELSE IF ans.receiveOk THEN <<"recipient is a contract">>
            ELSE <<"recipient is a contract", "contract may not accept transfers">>
      est == estimateGas(wallet, amount, gasStrategy, customGasConfig, ans.gas)
      gasEstimate == IF isContract THEN WithHeadroom(est.value) ELSE est.value
      w5 == IF isContract THEN Append(w4, "gas limit raised by 20%") ELSE w4
      balanceWei == parseEther(ans.balance.value)
      w7 == IF ans.network = "throws" THEN Append(w5, "network status unavailable")
            ELSE IF ans.network = "zero price" THEN Append(w5, "gas price abnormal")
            ELSE w5
      w8 == IF ans.nonceOk THEN w7 ELSE Append(w7, "nonce unavailable")
      Result(r, seen) == [result |-> r, balanceSeen |-> seen]
  IN IF ~wallet THEN Result(Blocked(<<>>, <<{"wallet", "not", "initialised"}>>), 0 - 1)
     ELSE IF ~isAddress(to) THEN Result(Blocked(<<>>, <<{"invalid", "address"}>>), 0 - 1)
     ELSE IF amount.nan THEN Result(PreflightThrew(<<>>, {"invalid", "number"}), 0 - 1)
     ELSE IF value <= 0 THEN Result(Blocked(<<>>, <<{"amount", "not", "positive"}>>), 0 - 1)
     ELSE IF ans.codeFails THEN Result(PreflightThrew(<<>>, TimedOut), 0 - 1)
     ELSE IF est.threw THEN Result(PreflightThrew(w4, est.error), 0 - 1)
     ELSE IF ans.balance.threw THEN Result(PreflightThrew(w5, ans.balance.error), 0 - 1)
     ELSE IF Insufficient(balanceWei, value, gasEstimate)
       THEN Result(BlockedWithGas(w5, <<{"insufficient", "balance"}>>, gasEstimate), balanceWei)
     ELSE Result(Passed(w8, <<>>, gasEstimate), balanceWei)

(***************************************************************************)
(* BlockchainService: retryTransaction and sendTransaction.                *)
(***************************************************************************)
NoPreflight == Blocked(<<>>, <<>>)

NoResult == [hash |-> "", success |-> FALSE, error |-> {}]

\* errors.join(', ').
JoinWords(errors) == UNION {errors[i] : i \in DOMAIN errors}

\* sendTransaction's catch block: the message it reports for the error it caught.
ErrorMessage(msg) ==
  IF "CALL_EXCEPTION" \in msg THEN {"contract", "call", "failed"}
  ELSE IF "INSUFFICIENT_FUNDS" \in msg THEN {"balance", "cannot", "pay", "fee"}
  ELSE IF "NONCE_EXPIRED" \in msg THEN {"nonce", "expired"}
  ELSE IF "REPLACEMENT_UNDERPRICED" \in msg THEN {"replacement", "fee", "too", "low"}
  ELSE IF "UNPREDICTABLE_GAS_LIMIT" \in msg THEN {"gas", "limit", "unpredictable"}
  ELSE msg

\* How the operation that sendTransaction hands to retryTransaction settles when
\* its try block throws msg: the catch block returns a failed TransactionResult.
OperationCaught(msg) == Returned([hash |-> "", success |-> FALSE, error |-> ErrorMessage(msg)])

\* retryTransaction once `await operation()` has settled with outcome o: return,
\* throw, or the delay (recorded, its wait not a step of its own) and the next
\* attempt.
retryTransaction(t, o) ==
  IF ~o.threw THEN [t EXCEPT !.pc = "done", !.outcome = o]
  ELSE IF ~isRetryableError(o.error) \/ t.attempt = MaxRetries
    THEN [t EXCEPT !.pc = "done", !.outcome = o]
    ELSE [t EXCEPT !.pc = "attempt", !.attempt = @ + 1,
                   !.delays = Append(@, TxBaseDelay * (2 ^ (t.attempt - 1)))]

\* The try block of sendTransaction's operation threw msg.
OperationThrew(t, msg) == retryTransaction([t EXCEPT !.failure = msg], OperationCaught(msg))

IdleTx ==
  [pc |-> "idle", wallet |-> FALSE, to |-> "bad", amount |-> NotANumber,
   gasStrategy |-> "fast", customGasConfig |-> NoCustom, attempt |-> 0,
   preflight |-> NoPreflight, balanceSeen |-> 0 - 1, submits |-> 0, payload |-> NoGas,
   failure |-> {}, delays |-> <<>>, outcome |-> Returned(NoResult)]

\* sendTransaction(to, amount, gasStrategy, customGasConfig) on a service whose
\* wallet is or is not initialised: retryTransaction starts its first attempt.
SendTransaction(wallet, to, amount, gasStrategy, customGasConfig) ==
  /\ tx.pc = "idle"
  /\ tx' = [IdleTx EXCEPT !.pc = "attempt", !.wallet = wallet, !.to = to, !.amount = amount,
                          !.gasStrategy = gasStrategy,
                          !.customGasConfig = customGasConfig, !.attempt = 1]
  /\ UNCHANGED <<rpcVars, maxTransfer, read, extraVars>>

\* One attempt, from the start of the operation to its broadcast (the call of
\* wallet.sendTransaction) or to its throw on an invalid preflight. Between the
\* awaits of the preflight no other code writes what the attempt reads, so the
\* answers of its calls are the step's input; the balance is read through the
\* pool (executeRequest above) and only its outcome is kept here.
Attempt(ans) ==
  /\ tx.pc = "attempt"
  /\ LET pre == preflightTransaction(tx.wallet, tx.to, tx.amount, tx.gasStrategy,
                                     tx.customGasConfig, ans)
         t == [tx EXCEPT !.preflight = pre.result, !.balanceSeen = pre.balanceSeen]
     IN IF ~pre.result.isValid
          THEN tx' = OperationThrew(t, {"preflight", "failed"} \cup JoinWords(pre.result.errors))
          ELSE tx' = [t EXCEPT !.pc = "submitting", !.submits = @ + 1,
                               !.payload = pre.result.gasEstimate]
  /\ UNCHANGED <<rpcVars, maxTransfer, read, extraVars>>

\* wallet.sendTransaction resolves: the node accepted the transaction.
SendAccepted ==
  /\ tx.pc = "submitting"
  /\ tx' = [tx EXCEPT !.pc = "confirming"]
  /\ UNCHANGED <<rpcVars, maxTransfer, read, extraVars>>

\* wallet.sendTransaction rejects.
SendRejected(e) ==
  /\ tx.pc = "submitting"
  /\ tx' = OperationThrew(tx, e)
  /\ UNCHANGED <<rpcVars, maxTransfer, read, extraVars>>

\* txResponse.wait(1) resolves: no receipt, a reverted one, a successful one.
ReceiptArrives(receipt) ==
  /\ tx.pc = "confirming"
  /\ tx' = CASE receipt = "none" -> OperationThrew(tx, {"confirmation", "failed"})
             [] receipt = "status 0" -> OperationThrew(tx, {"execution", "failed", "reverted"})
             [] OTHER -> retryTransaction(tx, Returned([hash |-> "0xhash", success |-> TRUE,
                                                       error |-> {}]))
  /\ UNCHANGED <<rpcVars, maxTransfer, read, extraVars>>

\* txResponse.wait(1) rejects.
WaitRejected(e) ==
  /\ tx.pc = "confirming"
  /\ tx' = OperationThrew(tx, e)
  /\ UNCHANGED <<rpcVars, maxTransfer, read, extraVars>>

(***************************************************************************)
(* BlockchainService: calculateMaxTransferAmount.                          *)
(***************************************************************************)
\* formatUnits / parseFloat of a token amount (a token of ether's decimals).
formatUnits(v) == formatEther(v)

parseFloatPositive(d) == ~d.nan /\ ~d.neg /\ (d.whole > 0 \/ d.frac > 0)

TokenBalances == {0, 7}

MaxAnswers ==
  [networkOk : BOOLEAN, balance : BalanceAnswers, gas : GasAnswers,
   tokenBalance : {Returned(formatUnits(b)) : b \in TokenBalances}
                  \cup {Threw(TimedOut, formatUnits(0))}]

\* The gas cost taken off twice.
MaxAmountWeiCostTwice(balanceWei, gasEstimate) == balanceWei - 2 * gasEstimate.totalCost

\* The maximum amount without the gas cost taken off.
MaxAmountWeiNoGas(balanceWei, gasEstimate) == balanceWei

\* Total balance minus the gas cost.
MaxAmountWei(balanceWei, gasEstimate) == balanceWei - gasEstimate.totalCost

NoMax == [maxAmount |-> formatEther(0), gasEstimate |-> NoGas,
          availableBalance |-> formatEther(0), canTransfer |-> FALSE]

\* Every failure leaves as one fixed error.
MaxThrew == Threw({"max", "transfer", "amount", "failed"}, NoMax)

calculateMaxTransferAmount(wallet, to, transferType, tokenAddress, gasStrategy, customGasConfig, ans) ==
  LET tokenGas == estimateTokenGas(wallet, gasStrategy, customGasConfig, ans.gas)
      nativeGas == estimateGas(wallet, Decimal(FALSE, 0, 1), gasStrategy, customGasConfig,
                               ans.gas)
      balanceWei == parseEther(ans.balance.value)
      canPayGas == balanceWei >= tokenGas.value.totalCost
      maxAmountWei == MaxAmountWei(balanceWei, nativeGas.value)
  IN IF ~wallet \/ ~isAddress(to) \/ to = "0xSelf" \/ ~ans.networkOk THEN MaxThrew
     ELSE IF transferType = "token"
       THEN IF tokenAddress = "" \/ ans.tokenBalance.threw \/ ans.balance.threw
                \/ tokenGas.threw
              THEN MaxThrew
              ELSE Returned([maxAmount |-> IF canPayGas THEN ans.tokenBalance.value
                                           ELSE formatEther(0),
                             gasEstimate |-> tokenGas.value,
                             availableBalance |-> ans.tokenBalance.value,
                             canTransfer |-> canPayGas
                                             /\ parseFloatPositive(ans.tokenBalance.value)])
       ELSE IF ans.balance.threw \/ nativeGas.threw
              THEN MaxThrew
              ELSE Returned([maxAmount |-> IF maxAmountWei > 0 THEN formatEther(maxAmountWei)
                                           ELSE formatEther(0),
                             gasEstimate |-> nativeGas.value,
                             availableBalance |-> ans.balance.value,
                             canTransfer |-> maxAmountWei > 0])

\* calculateMaxTransferAmount(to, transferType, tokenAddress, gasStrategy,
\* customGasConfig), with the answers of its awaited calls.
CalculateMaxTransferAmount(wallet, to, transferType, tokenAddress, gasStrategy, customGasConfig, ans) ==
  /\ maxTransfer.pc = "idle"
  /\ maxTransfer' =
       [pc |-> "done", transferType |-> transferType,
        nativeBalance |-> ans.balance.value,
        outcome |-> calculateMaxTransferAmount(wallet, to, transferType, tokenAddress,
                                               gasStrategy, customGasConfig, ans)]
  /\ UNCHANGED <<rpcVars, tx, read, extraVars>>

(***************************************************************************)
(* BlockchainService: retryWithBackoff, around estimateGas's operation.    *)
(***************************************************************************)
\* A thrown value: whether it is an Error, its message, its code ("" for none).
ErrorValue(isError, message, code) == [isError |-> isError, message |-> message, code |-> code]

\* The substrings isRateLimitError looks for in the lowercased message.
rateLimitSignatures == {"rate limit", "too many requests", "-32090",
                        "call rate limit exhausted", "retry in"}

isRateLimitError(error) ==
  /\ error.isError
  /\ \/ \E s \in rateLimitSignatures : s \in toLowerCase(error.message)
     \/ error.code = "-32090"

\* What the provider rejects with: two rate-limit errors told by their message,
\* one told by its code alone, a timeout, and a rejection that is not an Error.
ProviderErrors ==
  {ErrorValue(TRUE, {"Too Many Requests"}, ""),
   ErrorValue(TRUE, {"Rate limit", "exceeded"}, "429"),
   ErrorValue(TRUE, {"server", "error"}, "-32090"),
   ErrorValue(TRUE, TimedOut, ""),
   ErrorValue(FALSE, {"rate limit"}, "")}

\* What the network answers to the two calls of one invocation of the operation.
OperationAnswers ==
  {[fails |-> FALSE, error |-> {}, gasLimit |-> g, feeData |-> f, thrown |-> ErrorValue(TRUE, {}, "")] :
     g \in GasLimits, f \in {[maxFeePerGas |-> 4, maxPriorityFeePerGas |-> 1, gasPrice |-> 3]}}
  \cup {[fails |-> TRUE, error |-> e.message, gasLimit |-> 0, feeData |-> NoFeeData,
         thrown |-> e] : e \in ProviderErrors}

\* The error retryWithBackoff throws once the retries are used up.
RateLimitExhausted == ErrorValue(TRUE, {"API", "request", "rate", "too", "high"}, "")

\* A delay growing by the base delay each time.
BackoffDelayLinear(retryCount) ==
  LET d == BaseDelay * (retryCount + 1) IN IF d < MaxDelay THEN d ELSE MaxDelay

\* The delay before retry number retryCount + 1.
BackoffDelay(retryCount) ==
  LET d == BaseDelay * (2 ^ retryCount) IN IF d < MaxDelay THEN d ELSE MaxDelay

\* The endpoint this.provider is constructed on.
PolygonRpcUrl == "POLYGON_RPC_URL"

\* provider: the endpoint of this.provider; endpoints: the endpoint of every
\* invocation that went to the network. switchRpcNode only writes a log line:
\* switches counts its calls.
IdleRead ==
  [pc |-> "idle", wallet |-> FALSE, amount |-> NotANumber, gasStrategy |-> "fast",
   customGasConfig |-> NoCustom, retryCount |-> 0, requestCount |-> 0, invocations |-> 0,
   delays |-> <<>>, switches |-> 0, lastError |-> ErrorValue(TRUE, {}, ""),
   failures |-> <<>>, outcome |-> Returned(NoGas), thrown |-> ErrorValue(TRUE, {}, ""),
   feeData |-> NoFeeData, provider |-> PolygonRpcUrl, endpoints |-> <<>>]

\* estimateGas(to, amount, gasStrategy, customGasConfig): retryWithBackoff is
\* entered with retryCount 0 and awaits checkRateLimit.
EstimateGas(wallet, amount, gasStrategy, customGasConfig) ==
  /\ read.pc = "idle"
  /\ read' = [IdleRead EXCEPT !.pc = "checking", !.wallet = wallet, !.amount = amount,
                              !.gasStrategy = gasStrategy,
                              !.customGasConfig = customGasConfig]
  /\ UNCHANGED <<rpcVars, tx, maxTransfer, extraVars>>

\* The catch block retrying whatever the error is.
retryWithBackoffCatchAll(r, error) ==
  LET seen == [r EXCEPT !.lastError = error, !.failures = Append(@, error)]
  IN IF r.retryCount < ReadMaxRetries
       THEN [seen EXCEPT !.pc = "backoff", !.switches = @ + 1,
                         !.delays = Append(@, BackoffDelay(r.retryCount))]
       ELSE [seen EXCEPT !.pc = "done", !.thrown = RateLimitExhausted,
                         !.outcome = Threw(RateLimitExhausted.message, NoGas)]

\* retryWithBackoff's catch block for the error the try block threw.
retryWithBackoffCatch(r, error) ==
  LET seen == [r EXCEPT !.lastError = error, !.failures = Append(@, error)]
  IN IF isRateLimitError(error) /\ r.retryCount < ReadMaxRetries
       THEN [seen EXCEPT !.pc = "backoff", !.switches = @ + 1,
                         !.delays = Append(@, BackoffDelay(r.retryCount))]
       ELSE IF isRateLimitError(error)
         THEN [seen EXCEPT !.pc = "done", !.thrown = RateLimitExhausted,
                           !.outcome = Threw(RateLimitExhausted.message, NoGas)]
         ELSE [seen EXCEPT !.pc = "done", !.thrown = error,
                           !.outcome = Threw(error.message, NoGas)]

\* checkRateLimit returns (its waits are over, requestCount is counted) and the
\* operation is invoked: it throws before its first await (no wallet, an amount
\* parseEther rejects) or it awaits the network.
OperationStarts ==
  /\ read.pc = "checking"
  /\ LET r == [read EXCEPT !.requestCount = @ + 1, !.invocations = @ + 1]
         early == estimateGas(read.wallet, read.amount, read.gasStrategy,
                              read.customGasConfig,
                              [fails |-> FALSE, error |-> {}, gasLimit |-> 0,
                               feeData |-> NoFeeData])
     IN read' = IF early.threw
                  THEN retryWithBackoffCatch(r, ErrorValue(TRUE, early.error, ""))
                  ELSE [r EXCEPT !.pc = "operating", !.endpoints = Append(@, r.provider)]
  /\ UNCHANGED <<rpcVars, tx, maxTransfer, extraVars>>

\* The operation's Promise.all settles with the network's answer.
OperationSettles(answer) ==
  /\ read.pc = "operating"
  /\ LET o == estimateGas(read.wallet, read.amount, read.gasStrategy,
                          read.customGasConfig, answer)
     IN read' = IF o.threw THEN retryWithBackoffCatch(read, answer.thrown)
                ELSE [read EXCEPT !.pc = "done", !.outcome = o, !.feeData = answer.feeData]
  /\ UNCHANGED <<rpcVars, tx, maxTransfer, extraVars>>

\* switchRpcNode has returned and the backoff timer fires: the recursive call
\* with retryCount + 1 awaits checkRateLimit.
BackoffElapses ==
  /\ read.pc = "backoff"
  /\ read' = [read EXCEPT !.pc = "checking", !.retryCount = @ + 1]
  /\ UNCHANGED <<rpcVars, tx, maxTransfer, extraVars>>

(***************************************************************************)
(* AkasaDAOService: estimateSilenceGas.                                    *)
(***************************************************************************)
\* gasConfig: 0 stands for an absent gasLimit, gasMultiplier or
\* rescueGasMultiplier (each of them is tested for truthiness); multipliers in
\* tenths.
SilenceGasConfigs ==
  [gasLimit : {0, 4}, gasMultiplier : {0, 20, 60}, rescueMode : BOOLEAN,
   rescueGasMultiplier : {0, 30, 80}]

SilenceMultiplier(gasConfig) ==
  IF gasConfig.rescueMode /\ gasConfig.rescueGasMultiplier # 0
    THEN gasConfig.rescueGasMultiplier
  ELSE IF gasConfig.gasMultiplier # 0 THEN gasConfig.gasMultiplier
  ELSE 10

\* The object estimateSilenceGas returns; 0 stands for an absent field.
SilencePlan(gasLimit, maxFeePerGas, maxPriorityFeePerGas, gasPrice) ==
  [gasLimit |-> gasLimit, maxFeePerGas |-> maxFeePerGas,
   maxPriorityFeePerGas |-> maxPriorityFeePerGas, gasPrice |-> gasPrice]

\* estimateSilenceGas with the answers of its two awaited calls (the gas-limit
\* estimate, then the fee data); any failure yields the fixed gas limit alone.
estimateSilenceGas(gasConfig, answer) ==
  LET multiplier == SilenceMultiplier(gasConfig)
      finalGasLimit == IF gasConfig.gasLimit # 0 THEN gasConfig.gasLimit ELSE answer.gasLimit
      feeData == answer.feeData
  IN IF answer.fails THEN SilencePlan(SilenceFallbackGasLimit, 0, 0, 0)
     ELSE IF feeData.maxFeePerGas # 0 /\ feeData.maxPriorityFeePerGas # 0
       THEN SilencePlan(finalGasLimit, Times(feeData.maxFeePerGas, multiplier),
                        Times(feeData.maxPriorityFeePerGas, multiplier), 0)
       ELSE SilencePlan(finalGasLimit, 0, 0, Times(feeData.gasPrice, multiplier))

IdleSilence ==
  [pc |-> "idle", gasConfig |-> [gasLimit |-> 0, gasMultiplier |-> 0, rescueMode |-> FALSE,
                                 rescueGasMultiplier |-> 0],
   fails |-> FALSE, feeData |-> NoFeeData, plan |-> SilencePlan(0, 0, 0, 0)]

\* estimateSilenceGas(daiAmount, gasConfig), with the answers of its calls.
EstimateSilenceGas(gasConfig, answer) ==
  /\ silence.pc = "idle"
  /\ silence' = [pc |-> "done", gasConfig |-> gasConfig, fails |-> answer.fails,
                 feeData |-> answer.feeData, plan |-> estimateSilenceGas(gasConfig, answer)]
  /\ UNCHANGED <<coreVars, verifier, contracts, monitor, auto>>

(***************************************************************************)
(* TransactionVerifier.                                                    *)
(***************************************************************************)
TxHashes == {"0xa", "0xb"}

\* The lists of hashes verifyTransactions is called with (repeats included).
HashLists == UNION {[1..n -> TxHashes] : n \in 0..MaxHashes}

\* What provider.waitForTransaction(txHash, 1, 30000) does: it answers a
\* receipt (status 1, 0, or null, which the receipt type allows: Undefined
\* stands for it), answers null, or rejects (the 30 s timeout, a network
\* failure, or a value that is no Error).
LookupAnswers ==
  {[kind |-> "receipt", status |-> st, blockNumber |-> 7, error |-> ErrorValue(FALSE, {}, "")] :
     st \in {0, 1, Undefined}}
  \cup {[kind |-> "null", status |-> 0, blockNumber |-> 0, error |-> ErrorValue(FALSE, {}, "")]}
  \cup {[kind |-> "rejects", status |-> 0, blockNumber |-> 0, error |-> e] :
          e \in {ErrorValue(TRUE, {"timeout"}, "TIMEOUT"), ErrorValue(TRUE, {"network", "error"}, ""),
                 ErrorValue(FALSE, {"failed"}, "")}}

\* A TransactionStatus; error {} stands for no error field, blockNumber 0 for
\* none.
TransactionStatus(isConfirmed, isFailed, blockNumber, error) ==
  [isConfirmed |-> isConfirmed, isFailed |-> isFailed, blockNumber |-> blockNumber,
   error |-> error]

NoStatus == TransactionStatus(FALSE, FALSE, 0, {})

\* verifyTransaction without its catch block.
verifyTransactionUncaught(answer) ==
  IF answer.kind = "rejects" THEN Threw(answer.error.message, NoStatus)
  ELSE IF answer.kind = "null"
    THEN Returned(TransactionStatus(FALSE, TRUE, 0, {"confirmation", "timed", "out"}))
  ELSE Returned(TransactionStatus(answer.status = 1, answer.status = 0, answer.blockNumber, {}))

\* verifyTransaction(txHash), given what the lookup answers.
verifyTransaction(answer) ==
  IF answer.kind = "rejects"
    THEN Returned(TransactionStatus(FALSE, TRUE, 0,
                    IF answer.error.isError THEN answer.error.message
                    ELSE {"transaction", "verification", "failed"}))
  ELSE IF answer.kind = "null"
    THEN Returned(TransactionStatus(FALSE, TRUE, 0, {"confirmation", "timed", "out"}))
  ELSE Returned(TransactionStatus(answer.status = 1, answer.status = 0, answer.blockNumber, {}))

\* The results Map: absent keys have present FALSE.
EmptyResults == [h \in TxHashes |-> [present |-> FALSE, status |-> NoStatus]]

\* Promise.race instead of Promise.allSettled.
anySettled(pending, n) == n = 0 \/ Cardinality(pending) < n

\* Promise.allSettled(promises) resolves.
allSettled(pending, n) == pending = {}

IdleVerifier ==
  [pc |-> "idle", txHashes |-> <<>>, pending |-> {}, calls |-> <<>>, order |-> <<>>,
   results |-> EmptyResults, returned |-> EmptyResults]

\* One call of verifyTransaction: not settled yet.
PendingCall == [settled |-> FALSE, answer |-> CHOOSE a \in LookupAnswers : a.kind = "null",
                outcome |-> Returned(NoStatus)]

\* verifyTransactions(txHashes) up to its await: every verifyTransaction has
\* started its lookup.
VerifyTransactions(txHashes) ==
  /\ verifier.pc = "idle"
  /\ verifier' = [verifier EXCEPT !.pc = "waiting", !.txHashes = txHashes,
                    !.pending = DOMAIN txHashes,
                    !.calls = [i \in DOMAIN txHashes |-> PendingCall]]
  /\ UNCHANGED <<coreVars, silence, contracts, monitor, auto>>

\* The lookup of the i-th hash settles: verifyTransaction returns (or raises),
\* and the mapped function stores its status.
LookupSettles(i, answer) ==
  /\ verifier.pc # "idle"
  /\ i \in verifier.pending
  /\ LET outcome == verifyTransaction(answer)
         txHash == verifier.txHashes[i]
     IN verifier' = [verifier EXCEPT
          !.pending = @ \ {i},
          !.order = Append(@, i),
          !.calls[i] = [settled |-> TRUE, answer |-> answer, outcome |-> outcome],
          !.results = IF outcome.threw THEN @
                      ELSE [@ EXCEPT ![txHash] = [present |-> TRUE, status |-> outcome.value]]]
  /\ UNCHANGED <<coreVars, silence, contracts, monitor, auto>>

\* verifyTransactions returns the map.
VerifyTransactionsReturns ==
  /\ verifier.pc = "waiting"
  /\ allSettled(verifier.pending, Len(verifier.txHashes))
  /\ verifier' = [verifier EXCEPT !.pc = "done", !.returned = verifier.results]
  /\ UNCHANGED <<coreVars, silence, contracts, monitor, auto>>

(***************************************************************************)
(* contractValidation: the store of validated contracts, and               *)
(* AkasaDAOService.validateAndCacheContract.                               *)
(***************************************************************************)
ContractAddresses == {"0xAbC", "0xabc"}

\* address.addressToLowerCase().
addressToLowerCase(address) == LowerWord(address)

StoreKeys == {addressToLowerCase(a) : a \in ContractAddresses}

NetworkIds == {Polygon, Ethereum}

\* A ContractValidationResult; "" stands for an absent contractType, name or
\* error.
ContractValidationResult(isValid, contractType, name, error) ==
  [isValid |-> isValid, contractType |-> contractType, name |-> name, error |-> error]

\* What validateContractAddress answers.
ValidationResults ==
  {ContractValidationResult(TRUE, "ERC20", "Tok", ""),
   ContractValidationResult(TRUE, "Unknown", "Unknown Contract", ""),
   ContractValidationResult(FALSE, "", "", "not a contract")}

\* A ValidatedContract; present FALSE stands for no record under the key.
NoContract ==
  [present |-> FALSE, address |-> "", isValid |-> FALSE, contractType |-> "", name |-> "",
   validatedAt |-> 0, networkId |-> 0]

\* storeValidatedContract(address, result, networkId) at wall-clock time t.
storeValidatedContract(store, address, result, networkId, t) ==
  [store EXCEPT ![addressToLowerCase(address)] =
     [present |-> TRUE, address |-> addressToLowerCase(address), isValid |-> result.isValid,
      contractType |-> IF result.contractType = "" THEN "unknown" ELSE result.contractType,
      name |-> result.name, validatedAt |-> t, networkId |-> networkId]]

\* isContractValidated without the age test.
isContractValidatedAnyAge(store, address, networkId, t) ==
  LET contract == store[addressToLowerCase(address)]
  IN contract.present /\ contract.networkId = networkId /\ contract.isValid

\* isContractValidated(address, networkId) at wall-clock time t.
isContractValidated(store, address, networkId, t) ==
  LET contract == store[addressToLowerCase(address)]
  IN /\ contract.present
     /\ contract.networkId = networkId
     /\ (t - contract.validatedAt) * HoursPerTick < ValidityHours
     /\ contract.isValid

\* getValidatedContractInfo(address, networkId); NoContract stands for null.
getValidatedContractInfo(store, address, networkId) ==
  LET contract == store[addressToLowerCase(address)]
  IN IF ~contract.present \/ contract.networkId # networkId THEN NoContract ELSE contract

\* The result validateAndCacheContract builds from a record.
ResultOfContract(cachedInfo) ==
  ContractValidationResult(cachedInfo.isValid, cachedInfo.contractType, cachedInfo.name, "")

NoCall ==
  [pc |-> "idle", address |-> "", served |-> FALSE, probed |-> FALSE, before |-> NoContract,
   startedAt |-> 0, result |-> ContractValidationResult(FALSE, "", "", ""),
   after |-> NoContract, settledAt |-> 0]

IdleContracts == [store |-> [k \in StoreKeys |-> NoContract], clock |-> 0, call |-> NoCall]

\* validateAndCacheContract(address) up to its return from the store or to the
\* await of validateContractAddress.
ValidateAndCacheContract(address) ==
  /\ contracts.call.pc \in {"idle", "done"}
  /\ LET store == contracts.store
         cachedInfo == getValidatedContractInfo(store, address, Polygon)
         started == [NoCall EXCEPT !.address = address, !.before = store[addressToLowerCase(address)],
                                   !.startedAt = contracts.clock]
     IN contracts' = [contracts EXCEPT !.call =
          IF isContractValidated(store, address, Polygon, contracts.clock) /\ cachedInfo.present
            THEN [started EXCEPT !.pc = "done", !.served = TRUE,
                                 !.result = ResultOfContract(cachedInfo)]
            ELSE [started EXCEPT !.pc = "probing"]]
  /\ UNCHANGED <<coreVars, silence, verifier, monitor, auto>>

\* validateContractAddress answers: the result is stored and returned.
ValidationSettles(result) ==
  /\ contracts.call.pc = "probing"
  /\ LET store == storeValidatedContract(contracts.store, contracts.call.address, result,
                                         Polygon, contracts.clock)
     IN contracts' = [contracts EXCEPT
          !.store = store,
          !.call = [@ EXCEPT !.pc = "done", !.probed = TRUE, !.result = result,
                             !.after = store[addressToLowerCase(contracts.call.address)],
                             !.settledAt = contracts.clock]]
  /\ UNCHANGED <<coreVars, silence, verifier, monitor, auto>>

\* storeValidatedContract(address, result, networkId), called on its own.
StoreValidatedContract(address, result, networkId) ==
  /\ contracts' = [contracts EXCEPT
       !.store = storeValidatedContract(@, address, result, networkId, contracts.clock)]
  /\ UNCHANGED <<coreVars, silence, verifier, monitor, auto>>

\* HoursPerTick hours pass.
WallClockTick ==
  /\ contracts.clock < MaxWallClock
  /\ contracts' = [contracts EXCEPT !.clock = @ + 1]
  /\ UNCHANGED <<coreVars, silence, verifier, monitor, auto>>

(***************************************************************************)
(* BlockchainService: monitorBalance.                                      *)
(***************************************************************************)
\* What one iteration's Promise.all settles with: the balance string and the
\* block number, or a failure.
MonitorAnswers ==
  {[fails |-> FALSE, balance |-> b, blockNumber |-> n] : b \in {"0", "5"}, n \in {1, 2}}
  \cup {[fails |-> TRUE, balance |-> "0", blockNumber |-> 0]}

\* pc: where the closure's monitor function is (reading: awaiting its two reads;
\* timer: a setTimeout(monitor, ...) is pending; ended: nothing is pending).
\* reads counts the iterations that issued their reads, callbacks the calls of
\* the callback, interval the factor of the pending timer; stopped, stoppedAt,
\* readsAtStop, callbacksAtStop record the call of the stop function.
IdleMonitor ==
  [pc |-> "idle", isMonitoring |-> FALSE, lastBalance |-> "0", lastBlockNumber |-> 0,
   reads |-> 0, callbacks |-> 0, interval |-> 0, stopped |-> FALSE, stoppedAt |-> "idle",
   readsAtStop |-> 0, callbacksAtStop |-> 0]

\* monitor() without its first line.
monitorEntryUnchecked(mon) == [mon EXCEPT !.pc = "reading", !.reads = @ + 1, !.interval = 0]

\* monitor() up to its await: it returns at once when monitoring was stopped.
monitorEntry(mon) ==
  IF ~mon.isMonitoring THEN [mon EXCEPT !.pc = "ended", !.interval = 0]
  ELSE [mon EXCEPT !.pc = "reading", !.reads = @ + 1, !.interval = 0]

\* monitorBalance(address, callback, interval): the first iteration starts, the
\* stop function is returned.
MonitorBalance ==
  /\ monitor.pc = "idle"
  /\ monitor' = monitorEntry([IdleMonitor EXCEPT !.isMonitoring = TRUE])
  /\ UNCHANGED <<coreVars, silence, verifier, contracts, auto>>

\* The reads of the iteration settle: the callback on a change, then the next
\* timer (twice the interval after a failure) unless monitoring was stopped.
MonitorReadsSettle(answer) ==
  /\ monitor.pc = "reading"
  /\ LET changed == ~answer.fails /\ (answer.balance # monitor.lastBalance
                                       \/ answer.blockNumber > monitor.lastBlockNumber)
         seen == IF changed
                   THEN [monitor EXCEPT !.lastBalance = answer.balance,
                                        !.lastBlockNumber = answer.blockNumber,
                                        !.callbacks = @ + 1]
                   ELSE monitor
     IN monitor' = IF monitor.isMonitoring
                     THEN [seen EXCEPT !.pc = "timer",
                                       !.interval = IF answer.fails THEN 2 ELSE 1]
                     ELSE [seen EXCEPT !.pc = "ended"]
  /\ UNCHANGED <<coreVars, silence, verifier, contracts, auto>>

\* The pending timer fires: monitor() runs.
MonitorTimerFires ==
  /\ monitor.pc = "timer"
  /\ monitor.isMonitoring => monitor.reads < MaxReads
  /\ monitor' = monitorEntry(monitor)
  /\ UNCHANGED <<coreVars, silence, verifier, contracts, auto>>

\* The stop function monitorBalance returned is called.
StopMonitoring ==
  /\ monitor.pc # "idle"
  /\ monitor.isMonitoring
  /\ monitor' = [monitor EXCEPT !.isMonitoring = FALSE, !.stopped = TRUE,
                                !.stoppedAt = monitor.pc, !.readsAtStop = monitor.reads,
                                !.callbacksAtStop = monitor.callbacks]
  /\ UNCHANGED <<coreVars, silence, verifier, contracts, auto>>

(***************************************************************************)
(* MonitorPage: handleToggleMonitoring, its interval callback and          *)
(* refreshBalance.  The configuration is a valid one (validateConfig       *)
(* passed, isConfigured), native transfers, AkasaDAO disabled.             *)
(***************************************************************************)
\* The balances the wallet store and the wallet hold, as the strings
\* formatEther gives.
WalletBalances == {"0", "0.5", "2"}

\* parseFloat of a balance string, in tenths.
parseFloat(balance) ==
  CASE balance = "0" -> 0
    [] balance = "0.5" -> 5
    [] balance = "2" -> 20

\* The state after the page is mounted: no interval, useState(false) for
\* isRefreshing, an empty wallet store.
IdleAuto ==
  [isMonitoring |-> FALSE, stopped |-> FALSE, isRefreshing |-> FALSE,
   isRefreshingSeen |-> FALSE, autoTransfer |-> TRUE, minTransferAmount |-> "0.5",
   walletBalance |-> "0", chainBalance |-> "0", ticks |-> <<>>, transfers |-> <<>>]

AutoTicks == 1..Len(auto.ticks)

\* The callback's code after `await refreshBalance()`, up to its next await
\* (initializeWallet) or its return.
continueCheck(a, i) ==
  LET currentBalance == a.walletBalance IN
  IF currentBalance = "0" THEN [a EXCEPT !.ticks[i].pc = "done"]
  ELSE IF ~a.autoTransfer THEN [a EXCEPT !.ticks[i].pc = "done"]
  ELSE IF parseFloat(currentBalance) >= parseFloat(a.minTransferAmount)
       THEN [a EXCEPT !.ticks[i] = [pc |-> "initializing", currentBalance |-> currentBalance]]
       ELSE [a EXCEPT !.ticks[i].pc = "done"]

\* What follows a refreshBalance call that has returned, by the place of the
\* call: the check, the refresh after the transfer, the re-check 2 s later.
afterRefresh(a, i, phase) ==
  CASE phase = "refreshing" -> continueCheck(a, i)
    [] phase = "finalRefresh" -> [a EXCEPT !.ticks[i].pc = "recheckTimer"]
    [] phase = "rechecking" -> [a EXCEPT !.ticks[i].pc = "done"]

\* refreshBalance up to its first await, called by callback i at `phase`.  The
\* guard reads the isRefreshing of the render that created the closure; when
\* it returns at once the caller goes on in the same task.
refreshBalance(a, i, phase) ==
  IF a.isRefreshingSeen THEN afterRefresh(a, i, phase)
  ELSE [a EXCEPT !.isRefreshing = TRUE, !.walletBalance = "0", !.ticks[i].pc = phase]

\* handleToggleMonitoring while not monitoring: setInterval.  The callback
\* closes over the configuration and over the refreshBalance of this render.
StartAutoMonitoring(minTransferAmount, autoTransfer, seen) ==
  /\ ~auto.isMonitoring
  /\ ~auto.stopped
  /\ auto' = [auto EXCEPT !.isMonitoring = TRUE, !.minTransferAmount = minTransferAmount,
                          !.autoTransfer = autoTransfer, !.isRefreshingSeen = seen]
  /\ UNCHANGED <<coreVars, silence, verifier, contracts, monitor>>

\* handleToggleMonitoring while monitoring: clearInterval.  The callbacks in
\* progress go on.
StopAutoMonitoring ==
  /\ auto.isMonitoring
  /\ auto' = [auto EXCEPT !.isMonitoring = FALSE, !.stopped = TRUE]
  /\ UNCHANGED <<coreVars, silence, verifier, contracts, monitor>>

\* Funds arrive at the monitored wallet.
FundsArrive(balance) ==
  /\ auto.chainBalance = "0"
  /\ balance # "0"
  /\ auto' = [auto EXCEPT !.chainBalance = balance]
  /\ UNCHANGED <<coreVars, silence, verifier, contracts, monitor>>

\* The interval fires: a new run of the callback, up to its first await.
IntervalFires ==
  /\ auto.isMonitoring
  /\ Len(auto.ticks) < MaxTicks
  /\ LET i == Len(auto.ticks) + 1
         a == [auto EXCEPT !.ticks = Append(@, [pc |-> "start", currentBalance |-> "0"])]
     IN auto' = refreshBalance(a, i, "refreshing")
  /\ UNCHANGED <<coreVars, silence, verifier, contracts, monitor>>

\* The reads of a refreshBalance call settle: the store takes the balance, or
\* the error is logged; finally setIsRefreshing(false); the caller goes on.
RefreshSettles(i, ok) ==
  /\ i \in AutoTicks
  /\ auto.ticks[i].pc \in {"refreshing", "finalRefresh", "rechecking"}
  /\ LET a == [auto EXCEPT !.isRefreshing = FALSE,
                           !.walletBalance = IF ok THEN auto.chainBalance ELSE @]
     IN auto' = afterRefresh(a, i, auto.ticks[i].pc)
  /\ UNCHANGED <<coreVars, silence, verifier, contracts, monitor>>

\* initializeWallet settles: transfer(targetAddress, currentBalance, ...) is
\* called, or the error ends the callback in its catch.
InitializeWalletSettles(i, ok) ==
  /\ i \in AutoTicks
  /\ auto.ticks[i].pc = "initializing"
  /\ auto' = IF ok THEN [auto EXCEPT !.ticks[i].pc = "transferring",
                                     !.transfers = Append(@, auto.ticks[i].currentBalance)]
             ELSE [auto EXCEPT !.ticks[i].pc = "done"]
  /\ UNCHANGED <<coreVars, silence, verifier, contracts, monitor>>

\* transfer settles with success or failure (it never throws): the record is
\* added and refreshBalance is called again.
TransferSettles(i, success) ==
  /\ i \in AutoTicks
  /\ auto.ticks[i].pc = "transferring"
  /\ LET a == [auto EXCEPT !.chainBalance = IF success THEN "0" ELSE @]
     IN auto' = refreshBalance(a, i, "finalRefresh")
  /\ UNCHANGED <<coreVars, silence, verifier, contracts, monitor>>

\* The 2 s timer set after a transfer fires: refreshBalance once more.
RecheckFires(i) ==
  /\ i \in AutoTicks
  /\ auto.ticks[i].pc = "recheckTimer"
  /\ auto' = refreshBalance(auto, i, "rechecking")
  /\ UNCHANGED <<coreVars, silence, verifier, contracts, monitor>>


(***************************************************************************)
(* Specifications.                                                         *)
(***************************************************************************)
\* The state after `new RpcOptimizer()`.
InitRpc ==
  /\ nodes = [i \in NodeIds |-> InitNode]
  /\ cache = <<>>
  /\ requestQueue = <<>>
  /\ activeRequests = 0
  /\ procs = <<>>
  /\ orphanCalls = 0
  /\ healthRounds = [r \in 1..MaxRounds |-> NoRound]
  /\ now = 0
  /\ consecFails = [i \in NodeIds |-> 0]
  /\ waitOrder = <<>>
  /\ ev = [kind |-> "step"]
  /\ failedAttempts = 0

IdleMax == [pc |-> "idle", transferType |-> "native", nativeBalance |-> formatEther(0),
            outcome |-> MaxThrew]

\* The state after both singletons are constructed.
InitExtra == silence = IdleSilence /\ verifier = IdleVerifier /\ contracts = IdleContracts /\ monitor = IdleMonitor /\ auto = IdleAuto

Init == InitRpc /\ tx = IdleTx /\ maxTransfer = IdleMax /\ read = IdleRead /\ InitExtra

\* The pool scenario: health tracking and failover under failing endpoints,
\* a read that may be served from the cache, an operation the switch rejects.
Next ==
  \/ \E ct \in CacheTimes :
       CallExecuteRequest("getGasPrice", <<>>, ct, MaxCalls, MaxConcurrent)
  \/ CallExecuteRequest("unknownOp", <<>>, 0, MaxCalls, MaxConcurrent)
  \/ \E c \in Started : Dispatch(c)
  \/ \E c \in Started : CallSucceeds(c, 1)
  \/ \E c \in Started : CallFails(c, "timeout", MaxFailures)

Spec == Init /\ [][Next]_vars

\* The health scenario: calls made one after the other, with the periodic health
\* check.
NextHealth ==
  \/ InProgress = {} /\ CallExecuteRequest("getGasPrice", <<>>, 0, MaxHealthCalls, MaxConcurrent)
  \/ InProgress = {} /\ CallExecuteRequest("unknownOp", <<>>, 0, MaxHealthCalls, MaxConcurrent)
  \/ \E c \in Started : Dispatch(c)
  \/ \E c \in Started : CallSucceeds(c, 1)
  \/ \E c \in Started : CallFails(c, "timeout", MaxFailures)
  \/ \E r \in 1..MaxRounds : StartHealthCheck(r)
  \/ \E r \in 1..MaxRounds : \E o \in {"fast", "slow", "error"} : ProbeCompletes(r, o)

SpecHealth == Init /\ [][NextHealth]_vars

\* The cache scenario: cached reads, purges and the clock. An endpoint answers
\* with the chain's state as of the answer, which the model names by its time.
NextCache ==
  \/ \E op \in {"getGasPrice", "getTokenBalance"} : \E params \in ParamsOf(op) :
       \E ct \in CacheTimes : CallExecuteRequest(op, params, ct, MaxCacheCalls, MaxConcurrent)
  \/ \E a \in Wallets : GetBalance(a, MaxCacheCalls, MaxConcurrent)
  \/ ClearCache
  \/ \E c \in Started : Dispatch(c)
  \/ \E c \in Started : CallSucceeds(c, now)
  \/ \E c \in Started : CallFails(c, "timeout", MaxCacheFailures)
  \/ Tick

SpecCache == Init /\ [][NextCache]_vars

\* The throttle scenario: more callers than slots.
NextThrottle ==
  \/ \E a \in Wallets :
       CallExecuteRequest("getBalance", <<a>>, 0, MaxActive + MaxWaiters, MaxActive + MaxWaiters)
  \/ \E c \in Started : Dispatch(c)
  \/ \E c \in Started : CallSucceeds(c, 1)
  \/ \E c \in Started : CallFails(c, "timeout", MaxThrottleFailures)

SpecThrottle == Init /\ [][NextThrottle]_vars

\* The stale-snapshot scenario: overlapping calls with enough failed attempts
\* to turn an endpoint unhealthy while another call still holds it as a
\* candidate.
NextStale ==
  \/ CallExecuteRequest("getGasPrice", <<>>, 0, MaxStaleCalls, MaxConcurrent)
  \/ \E c \in Started : Dispatch(c)
  \/ \E c \in Started : CallSucceeds(c, 1)
  \/ \E c \in Started : CallFails(c, "timeout", MaxStaleFailures)

SpecStale == Init /\ [][NextStale]_vars

\* The queue scenario: more callers than slots, and every step the program
\* takes by itself is eventually taken: a resumed caller dispatches its call
\* (the microtask runs), and a call on the wire eventually completes, with an
\* answer or with a failure.
NextQueue ==
  \/ \E a \in Wallets :
       CallExecuteRequest("getBalance", <<a>>, 0, MaxActive + MaxQueued, MaxActive + MaxQueued)
  \/ \E c \in Started : Dispatch(c)
  \/ \E c \in Started : CallSucceeds(c, 1)
  \/ \E c \in Started : CallFails(c, "timeout", MaxQueueFailures)

Completes(c) == CallSucceeds(c, 1) \/ CallFails(c, "timeout", MaxQueueFailures)

SpecQueue ==
  /\ Init
  /\ [][NextQueue]_vars
  /\ \A c \in 1..(MaxActive + MaxQueued) : WF_vars(Dispatch(c)) /\ WF_vars(Completes(c))

\* The fan-out scenario: operations that put one call, or several calls at once,
\* on the wire.
NextFanout ==
  \/ \E op \in {"getBalance", "getTokenInfo"} : \E params \in ParamsOf(op) :
       CallExecuteRequest(op, params, 0, MaxCacheCalls, MaxConcurrent)
  \/ \E c \in Started : Dispatch(c)
  \/ \E c \in Started : CallSucceeds(c, 1)
  \/ \E c \in Started : CallFails(c, "timeout", MaxCacheFailures)
  \/ OrphanCompletes

SpecFanout == Init /\ [][NextFanout]_vars

\* The transfer scenario: one sendTransaction call from its invocation to its result.
NextTx ==
  \/ \E wallet \in BOOLEAN : \E to \in Addresses : \E amount \in Amounts :
       \E gas \in GasChoices : SendTransaction(wallet, to, amount, gas[1], gas[2])
  \/ \E ans \in PreflightAnswers : Attempt(ans)
  \/ SendAccepted
  \/ \E e \in SendErrors : SendRejected(e)
  \/ \E receipt \in {"none", "status 0", "status 1"} : ReceiptArrives(receipt)
  \/ \E e \in ReadErrors : WaitRejected(e)

SpecTx == Init /\ [][NextTx]_vars

\* The maximum-amount scenario: one calculateMaxTransferAmount call.
NextMax ==
  \E wallet \in BOOLEAN : \E to \in Addresses : \E transferType \in {"native", "token"} :
    \E tokenAddress \in {"", "0xToken"} : \E gas \in GasChoices : \E ans \in MaxAnswers :
      CalculateMaxTransferAmount(wallet, to, transferType, tokenAddress, gas[1], gas[2], ans)

SpecMax == Init /\ [][NextMax]_vars

\* The wrapper scenario: the public read methods and executeRequest itself, one
\* call after the other, on a cache that ages and is cleared.
NextWrappers ==
  \/ /\ InProgress = {}
     /\ \E t \in Tokens : \E a \in Wallets : \E ct \in CacheTimes :
          CallExecuteRequest("getTokenBalance", <<t, a>>, ct, MaxCacheCalls, MaxConcurrent)
  \/ InProgress = {} /\ \E ct \in CacheTimeArgs : GetGasPrice(ct, MaxCacheCalls, MaxConcurrent)
  \/ /\ InProgress = {}
     /\ \E t \in Tokens : \E ct \in CacheTimeArgs :
          GetTokenInfo(t, ct, MaxCacheCalls, MaxConcurrent)
  \/ /\ InProgress = {}
     /\ \E t \in Tokens : \E a \in Wallets : \E ct \in CacheTimeArgs :
          GetTokenBalance(t, a, ct, MaxCacheCalls, MaxConcurrent)
  \/ InProgress = {} /\ \E a \in Wallets : GetBalance(a, MaxCacheCalls, MaxConcurrent)
  \/ ClearCache
  \/ \E c \in Started : Dispatch(c)
  \/ \E c \in Started : CallSucceeds(c, now)
  \/ \E c \in Started : CallFails(c, "timeout", MaxCacheFailures)
  \/ Tick

SpecWrappers == Init /\ [][NextWrappers]_vars

\* Balance reads among cached reads of fee data and token info, one call at a
\* time.
NextBalance ==
  \/ InProgress = {} /\ \E ct \in CacheTimeArgs : GetGasPrice(ct, MaxCacheCalls, MaxConcurrent)
  \/ /\ InProgress = {}
     /\ \E t \in Tokens : \E ct \in CacheTimeArgs :
          GetTokenInfo(t, ct, MaxCacheCalls, MaxConcurrent)
  \/ InProgress = {} /\ \E a \in Wallets : GetBalance(a, MaxCacheCalls, MaxConcurrent)
  \/ InProgress = {} /\ \E a \in Wallets : ServiceGetBalance(a, MaxCacheCalls, MaxConcurrent)
  \/ \E c \in Started : Dispatch(c)
  \/ \E c \in Started : CallSucceeds(c, now)
  \/ Tick

SpecBalance == Init /\ [][NextBalance]_vars

\* The error scenario: attempts that fail with different messages.
NextErrors ==
  \/ CallExecuteRequest("getGasPrice", <<>>, 0, MaxErrorCalls, MaxConcurrent)
  \/ CallExecuteRequest("unknownOp", <<>>, 0, MaxErrorCalls, MaxConcurrent)
  \/ \E c \in Started : Dispatch(c)
  \/ \E c \in Started : CallSucceeds(c, 1)
  \/ \E c \in Started : \E err \in NetErrors : CallFails(c, err, MaxFailures)

SpecErrors == Init /\ [][NextErrors]_vars

\* The gas choices of a caller that also passes multipliers of 0.5 and of 15.
ReadGasChoices ==
  GasChoices
  \cup {<<"custom", [given |-> TRUE, gasMultiplier |-> 5, gasLimit |-> 0, crazyMode |-> FALSE]>>,
        <<"custom", [given |-> TRUE, gasMultiplier |-> 150, gasLimit |-> 0, crazyMode |-> FALSE]>>}

\* estimateGas: one call, through retryWithBackoff.
NextRead ==
  \/ \E wallet \in BOOLEAN, amount \in Amounts, choice \in ReadGasChoices :
       EstimateGas(wallet, amount, choice[1], choice[2])
  \/ OperationStarts
  \/ \E answer \in OperationAnswers : OperationSettles(answer)
  \/ BackoffElapses

SpecRead == Init /\ [][NextRead]_vars

\* estimateSilenceGas: one call.
NextSilence ==
  \E gasConfig \in SilenceGasConfigs : \E answer \in GasAnswers :
    EstimateSilenceGas(gasConfig, answer)

SpecSilence == Init /\ [][NextSilence]_vars

\* TransactionVerifier: one verifyTransactions call.
NextVerifier ==
  \/ \E txHashes \in HashLists : VerifyTransactions(txHashes)
  \/ \E i \in 1..MaxHashes : \E answer \in LookupAnswers : LookupSettles(i, answer)
  \/ VerifyTransactionsReturns

SpecVerifier == Init /\ [][NextVerifier]_vars

\* The store of validated contracts: validateAndCacheContract calls one after
\* another, stores for either network, and the wall clock.
NextContracts ==
  \/ \E address \in ContractAddresses : ValidateAndCacheContract(address)
  \/ \E result \in ValidationResults : ValidationSettles(result)
  \/ \E address \in ContractAddresses : \E result \in ValidationResults :
       \E networkId \in NetworkIds : StoreValidatedContract(address, result, networkId)
  \/ WallClockTick

SpecContracts == Init /\ [][NextContracts]_vars

\* One monitorBalance call and its stop function.
NextMonitor ==
  \/ MonitorBalance
  \/ \E answer \in MonitorAnswers : MonitorReadsSettle(answer)
  \/ MonitorTimerFires
  \/ StopMonitoring

SpecMonitor == Init /\ [][NextMonitor]_vars

\* One monitoring session of the page with funds arriving.
NextAuto ==
  \/ \E minTransferAmount \in {"0.5", "2"}, autoTransfer \in BOOLEAN, seen \in BOOLEAN :
       StartAutoMonitoring(minTransferAmount, autoTransfer, seen)
  \/ StopAutoMonitoring
  \/ \E balance \in WalletBalances : FundsArrive(balance)
  \/ IntervalFires
  \/ \E i \in 1..MaxTicks, ok \in BOOLEAN : RefreshSettles(i, ok)
  \/ \E i \in 1..MaxTicks, ok \in BOOLEAN : InitializeWalletSettles(i, ok)
  \/ \E i \in 1..MaxTicks, success \in BOOLEAN : TransferSettles(i, success)
  \/ \E i \in 1..MaxTicks : RecheckFires(i)

SpecAuto == Init /\ [][NextAuto]_vars

\* BlockchainService with one call at a time: estimateGas or sendTransaction.
NextService ==
  \/ tx.pc = "idle" /\ NextRead
  \/ read.pc = "idle" /\ NextTx

SpecService == Init /\ [][NextService]_vars

(***************************************************************************)
(* Properties of the endpoint pool, the cache and the throttle.            *)
(***************************************************************************)
\* A step in which executeRequest is invoked.
Invoked == Cardinality(DOMAIN procs') = Cardinality(DOMAIN procs) + 1

\* C1: an endpoint's health flag changes from healthy to unhealthy only after 3
\* consecutive failed attempts on it: 3 failures with no success on that endpoint
\* between them.
C1_UnhealthyAfterThreeConsecutive ==
  [][\A n \in NodeIds :
       (nodes[n].isHealthy /\ ~nodes'[n].isHealthy) => consecFails'[n] >= 3]_vars

\* C2: a cache read never returns a value that was stored more than the entry's
\* ttl before the read (the value is the chain's state as of its fetch).
C2_CacheReadWithinTtl ==
  ev.kind = "hit" => /\ ev.at - ev.data <= ev.ttl
                     /\ ev.at - ev.timestamp <= ev.ttl

\* A read served from an entry that is exactly ttl old.
C2_Witness == ev.kind = "hit" /\ ev.ttl > 0 /\ ev.at - ev.data = ev.ttl

\* C3: at every moment at most 5 outbound network calls issued through the pool
\* are in progress, whatever the callers and the operations they request.
C3_AtMostFiveCallsInProgress == NetCallsInFlight <= 5

\* C4: the throttle admits waiting callers in arrival order. A caller leaves the
\* queue only as the earliest caller still waiting, and a caller that did not wait
\* is admitted only when nobody is waiting; callers wait only at the ceiling.
C4_AdmittedInArrivalOrder ==
  [][/\ \A c \in DOMAIN procs' :
          LET was == IF c \in DOMAIN procs THEN procs[c].pc ELSE "new"
          IN (procs'[c].pc = "admitted" /\ was # "admitted") =>
               IF was = "queued"
                 THEN waitOrder # <<>> /\ c = Head(waitOrder)
                 ELSE waitOrder' = <<>>
     /\ (waitOrder' # <<>> => activeRequests' = MaxActive)]_vars

\* A caller admitted from the queue while a later caller still waits.
C4_Witness ==
  \E c \in Started : /\ procs[c].pc = "admitted"
                     /\ Len(waitOrder) >= 1
                     /\ \A w \in Range(waitOrder) : c < w

\* The state of the pool that a call made without a healthy endpoint must leave alone.
PoolUntouched ==
  /\ nodes' = nodes
  /\ activeRequests' = activeRequests
  /\ requestQueue' = requestQueue
  /\ NetCallsInFlight' = NetCallsInFlight
  /\ InProgress' = InProgress

\* C5 as stated: executeRequest invoked while no endpoint is healthy raises
\* immediately, dispatching no call, acquiring no slot, changing no endpoint.
C5_NoHealthyRaises ==
  [][(Invoked /\ HealthyNodes(nodes) = <<>>) =>
       (ev'.kind = "noNodes" /\ PoolUntouched)]_vars

\* C5: executeRequest invoked while no endpoint is healthy either returns an
\* unexpired cached value (cacheTime > 0) or raises immediately; either way it
\* dispatches no call, acquires no slot and changes no endpoint.
C5_NoHealthyHitOrRaises ==
  [][(Invoked /\ (\A n \in NodeIds : ~nodes[n].isHealthy)) =>
       /\ ev'.kind \in {"noNodes", "hit"}
       /\ ev'.kind = "hit" => ev'.at - ev'.timestamp <= ev'.ttl
       /\ PoolUntouched]_vars

\* A call that was refused because no endpoint is healthy.
C5_Witness == ev.kind = "noNodes" /\ \A n \in NodeIds : ~nodes[n].isHealthy

(***************************************************************************)
(* Properties of sendTransaction, preflight and the maximum amount.        *)
(***************************************************************************)
\* The attempt's preflight has returned.
Preflighted == tx.pc \in {"submitting", "confirming", "done"}

\* C6: when a submission attempt fails with a retryable failure, the retry
\* controller runs a further attempt, up to 3 attempts in total: a call that ended
\* on a retryable failure has made all 3 attempts.
C6_RetryableFailureRetried ==
  (tx.pc = "done" /\ isRetryableError(tx.failure)) => tx.attempt = 3

\* C7: sendTransaction broadcasts only in an attempt whose preflight finished with
\* an empty errors list, having read a balance >= amount + totalCost; an attempt
\* whose preflight reports an error broadcasts nothing.
C7_BroadcastOnlyAfterCleanPreflight ==
  [][/\ tx'.submits # tx.submits =>
          /\ tx.pc = "attempt"
          /\ tx'.submits = tx.submits + 1
          /\ tx'.preflight.isValid
          /\ tx'.preflight.errors = <<>>
          /\ tx'.balanceSeen >= parseEther(tx'.amount) + tx'.preflight.gasEstimate.totalCost
     /\ (tx.pc = "attempt" /\ tx'.preflight.errors # <<>>) => tx'.submits = tx.submits]_vars

\* A broadcast on a balance that exactly covers amount and gas.
C7_Witness ==
  /\ tx.pc = "submitting"
  /\ tx.submits = 1
  /\ tx.preflight.gasEstimate.totalCost > 0
  /\ tx.balanceSeen = parseEther(tx.amount) + tx.preflight.gasEstimate.totalCost

\* C8: every result of preflightTransaction, on every return path, has isValid
\* true exactly when its errors list is empty; warnings do not make it invalid.
C8_ValidIffNoErrors ==
  Preflighted => (tx.preflight.isValid <=> tx.preflight.errors = <<>>)

\* A valid result that carries warnings.
C8_Witness == Preflighted /\ tx.preflight.isValid /\ Len(tx.preflight.warnings) >= 2

\* C9 as stated: every result of calculateMaxTransferAmount satisfies
\* maxAmount + gasEstimate.totalCost <= balance.
C9_MaxPlusCostWithinBalance ==
  (maxTransfer.pc = "done" /\ ~maxTransfer.outcome.threw) =>
    parseEther(maxTransfer.outcome.value.maxAmount)
      + maxTransfer.outcome.value.gasEstimate.totalCost
      <= parseEther(maxTransfer.outcome.value.availableBalance)

\* C9: a native result has canTransfer exactly when balance > totalCost; then
\* maxAmount + totalCost = balance, otherwise maxAmount = 0. A token result's
\* maxAmount is the whole token balance when the native balance covers totalCost,
\* and 0 otherwise.
C9_MaxAmountByBranch ==
  (maxTransfer.pc = "done" /\ ~maxTransfer.outcome.threw) =>
    LET r == maxTransfer.outcome.value
        cost == r.gasEstimate.totalCost
        balanceWei == parseEther(maxTransfer.nativeBalance)
    IN IF maxTransfer.transferType = "native"
         THEN /\ r.canTransfer <=> balanceWei > cost
              /\ r.canTransfer => parseEther(r.maxAmount) + cost = balanceWei
              /\ ~r.canTransfer => parseEther(r.maxAmount) = 0
              /\ r.availableBalance = maxTransfer.nativeBalance
         ELSE /\ parseEther(r.maxAmount) =
                   IF balanceWei >= cost THEN parseEther(r.availableBalance) ELSE 0
              /\ r.canTransfer <=> (balanceWei >= cost /\ parseEther(r.availableBalance) > 0)

\* A native result that can transfer after paying for gas.
C9_Witness ==
  /\ maxTransfer.pc = "done"
  /\ ~maxTransfer.outcome.threw
  /\ maxTransfer.transferType = "native"
  /\ maxTransfer.outcome.value.canTransfer
  /\ maxTransfer.outcome.value.gasEstimate.totalCost > 0

\* The per-unit price a GasEstimate is charged at.
EffectivePrice(g) ==
  IF g.maxFeePerGas # 0 /\ g.maxPriorityFeePerGas # 0 THEN g.maxFeePerGas ELSE g.gasPrice

\* C10: every GasEstimate used for the balance check and handed to the submitter
\* has totalCost = gasLimit * effective per-unit price, also after the 20%
\* headroom for a contract recipient.
C10_TotalCostIsLimitTimesPrice ==
  (Preflighted /\ tx.preflight.hasGas) =>
    tx.preflight.gasEstimate.totalCost
      = tx.preflight.gasEstimate.gasLimit * EffectivePrice(tx.preflight.gasEstimate)

(***************************************************************************)
(* Properties of retryWithBackoff.                                         *)
(***************************************************************************)
\* C11: one retryWithBackoff call invokes the wrapped operation at most 3
\* times, however many rate-limit failures occur.
C11_AtMostThreeInvocations == read.invocations <= 3

\* The step in which retryWithBackoff's catch block receives an error.
ReadFailed == Len(read'.failures) = Len(read.failures) + 1

\* The step in which an attempt of sendTransaction ends on a failure.
TxFailed ==
  /\ tx.pc \in {"attempt", "submitting", "confirming"}
  /\ tx'.pc \in {"done", "attempt"}
  /\ ~(tx'.pc = "done" /\ ~tx'.outcome.threw /\ tx'.outcome.value.success)

\* C12: a failure that is not classified retryable reaches the caller in the
\* step it is caught: on the read path (no rate-limit signature) the call ends
\* throwing that very error, on the submission path (not in the retryable class)
\* the call ends reporting it; no delay is recorded, and a call that has ended
\* invokes nothing more.
C12_NonRetryablePropagatesAtOnce ==
  [][/\ (ReadFailed /\ ~isRateLimitError(read'.lastError)) =>
          /\ read'.pc = "done"
          /\ read'.outcome.threw
          /\ read'.thrown = read'.lastError
          /\ read'.delays = read.delays
          /\ read'.switches = read.switches
     /\ read.pc = "done" => read' = read
     /\ (TxFailed /\ ~isRetryableError(tx'.failure)) =>
          /\ tx'.pc = "done"
          /\ tx'.attempt = tx.attempt
          /\ tx'.delays = tx.delays
          /\ tx'.outcome.value.error = ErrorMessage(tx'.failure)
     /\ tx.pc = "done" => tx' = tx]_vars

\* A timeout caught after one rate-limit retry has ended the call.
C12_Witness ==
  /\ read.pc = "done"
  /\ read.retryCount = 1
  /\ read.lastError.message = TimedOut
  /\ read.thrown = read.lastError

(***************************************************************************)
(* Further properties of the endpoint pool.                                *)
(***************************************************************************)
\* The candidates of a call are distinct and in descending configured weight.
ByDescendingWeight(cands) ==
  \A i, j \in DOMAIN cands :
    i < j => (cands[i] # cands[j] /\ weight(cands[i]) >= weight(cands[j]))

\* C13: within one executeRequest call the candidates are attempted one at a
\* time in descending configured weight order: the call starts at its first
\* candidate, moves to candidate k+1 only in the step that observes the failure
\* of the attempt on candidate k, and after a success (the call has returned)
\* dispatches nothing more.
C13_SequentialInWeightOrder ==
  [][/\ \A c \in DOMAIN procs' : ByDescendingWeight(procs'[c].cands)
     /\ \A c \in (DOMAIN procs') \ DOMAIN procs : procs'[c].pc # "done" => procs'[c].idx = 1
     /\ \A c \in DOMAIN procs :
          LET p == procs[c]
              q == procs'[c]
          IN /\ p.pc = "done" => q = p
             /\ (p.pc # "done" /\ q.pc # "done") =>
                  /\ q.cands = p.cands
                  /\ q.idx \in {p.idx, p.idx + 1}
                  /\ q.idx = p.idx + 1 =>
                       /\ p.pc \in {"admitted", "inflight"}
                       /\ failedAttempts' = failedAttempts + 1
                       /\ nodes'[p.cands[p.idx]].errorCount
                            = nodes[p.cands[p.idx]].errorCount + 1
                       /\ q.pc \in {"admitted", "queued"}
             /\ (p.pc # "inflight" /\ q.pc = "inflight") =>
                  (p.pc = "admitted" /\ q.idx = p.idx)]_vars

\* The second candidate of a call is on the wire, after the first one failed.
C13_Witness ==
  \E c \in DOMAIN procs :
    /\ procs[c].pc = "inflight"
    /\ procs[c].idx = 2
    /\ weight(procs[c].cands[1]) > weight(procs[c].cands[2])

\* A call that was in progress has ended in this step.
Ended(c) == procs[c].pc # "done" /\ procs'[c].pc = "done"

\* C14: executeRequest raises only when the attempt on every candidate has
\* failed (the raising step is the failure of the last candidate of the call) or
\* when no candidate is healthy; the failure of an earlier candidate ends nothing
\* and raises nothing; the raised error carries the message of the last
\* candidate's failure.
C14_RaisesOnlyWhenAllFailed ==
  [][/\ ev'.kind = "allFailed" =>
          /\ ev'.c \in DOMAIN procs
          /\ Ended(ev'.c)
          /\ procs[ev'.c].idx = Len(procs[ev'.c].cands)
          /\ failedAttempts' = failedAttempts + 1
          /\ ev'.error = <<"network request failed", ev'.failure>>
     /\ ev'.kind = "noNodes" =>
          /\ \A n \in NodeIds : ~nodes[n].isHealthy
          /\ ev'.c \notin DOMAIN procs
     /\ \A c \in DOMAIN procs :
          /\ (failedAttempts' # failedAttempts /\ procs'[c] # procs[c]
                /\ procs[c].pc \in {"admitted", "inflight"}
                /\ procs[c].idx < Len(procs[c].cands)) =>
               (procs'[c].pc # "done" /\ ev'.kind = "step")
          /\ (Ended(c) /\ failedAttempts' = failedAttempts) => ev'.kind = "step"]_vars

\* A call has raised after its first candidate failed with one message and its
\* last candidate with another.
C14_Witness ==
  /\ ev.kind = "allFailed"
  /\ ev.failure = "server error"
  /\ ev.error = <<"network request failed", "server error">>
  /\ failedAttempts = 2
  /\ nodes[1].errorCount = 1

\* A step of a health-check round, and the step in which a probe of n succeeds.
ProbeStep == healthRounds' # healthRounds

ProbeSucceeded(n) ==
  /\ \E r \in DOMAIN healthRounds :
       healthRounds[r].node = n /\ healthRounds'[r] # healthRounds[r]
  /\ procs' = procs
  /\ nodes'[n] = [isHealthy |-> TRUE, errorCount |-> 0]

CallStarts == DOMAIN procs' # DOMAIN procs

NewCall == CHOOSE c \in DOMAIN procs' : c \notin DOMAIN procs

\* The cache key of the call that starts.
KeyRead ==
  IF ev'.kind = "hit" THEN ev'.key
  ELSE getCacheKey(procs'[NewCall].op, procs'[NewCall].params)

\* At the start of the call the cache holds an unexpired entry for its key.
EntryFresh ==
  /\ ev'.kind \in {"hit", "call"}
  /\ KeyRead \in DOMAIN cache
  /\ cache[KeyRead].ttl > 0
  /\ ~Expired(cache[KeyRead], now)

\* The call returns the stored value at once: nothing is dispatched, no slot is
\* taken, no node is touched.
ServedFromCache ==
  /\ ev'.kind = "hit"
  /\ ev'.data = cache[KeyRead].data
  /\ procs'[NewCall] = NoProc
  /\ activeRequests' = activeRequests
  /\ nodes' = nodes

\* C16: a read with ttl > 0 of a key whose entry, written with ttl > 0, has not
\* expired returns the cached value and dispatches no network call, whether it
\* is made through executeRequest or through getGasPrice, getTokenInfo or
\* getTokenBalance.
C16_FreshEntryServedFromCache ==
  [][(CallStarts /\ EntryFresh /\ ev'.call.cacheTime > 0) => ServedFromCache]_vars

\* C16 as the code has it: through executeRequest, getGasPrice and getTokenInfo
\* such a read is served from the cache; getTokenBalance first deletes every
\* getTokenBalance entry, so it is never served from the cache.
C16_FreshEntryServedExceptTokenBalance ==
  [][CallStarts =>
       /\ (EntryFresh /\ ev'.call.cacheTime > 0 /\ ev'.call.api # "getTokenBalance") =>
            ServedFromCache
       /\ (ev'.kind \in {"hit", "call", "noNodes"} /\ ev'.call.api = "getTokenBalance") =>
            /\ ev'.kind # "hit"
            /\ \A k \in DOMAIN cache' : k[1] # "getTokenBalance"]_vars

\* getTokenInfo has been served from the cache.
C16_Witness ==
  /\ ev.kind = "hit"
  /\ ev.call.api = "getTokenInfo"
  /\ ev.call.cacheTime > 0
  /\ ev.key[1] = "getTokenInfo"

\* C17: a read requested with ttl = 0 bypasses the cache, through every public
\* read method that accepts a ttl: it is not served from the cache, it leaves the
\* cache map as it found it, and its fetch will store nothing.
C17_ZeroTtlBypassesCache ==
  [][(CallStarts /\ ev'.call.cacheTime = 0) =>
       /\ ev'.kind # "hit"
       /\ cache' = cache
       /\ procs'[NewCall].cacheTime = 0]_vars

EstimationFailed ==
  /\ read.pc = "done"
  /\ read.invocations > 0
  /\ Len(read.failures) = read.invocations
  /\ read.lastError \in ProviderErrors

\* C19: when the gas-limit estimation or the fee lookup fails, the estimator
\* does not fail: it returns a plan with a hardcoded gas limit.
C19_EstimatorFallsBack ==
  EstimationFailed => (~read.outcome.threw /\ read.outcome.value.gasLimit > 0)

\* C20: preflight rejects every transfer whose destination is the sender's own
\* address, so sendTransaction never broadcasts a self-transfer.
C20_NoSelfTransferBroadcast ==
  /\ (Preflighted /\ tx.to = "0xSelf") => ~tx.preflight.isValid
  /\ tx.submits > 0 => tx.to # "0xSelf"

(***************************************************************************)
(* Properties of the gas plan.                                             *)
(***************************************************************************)
\* estimateGas has returned a plan.
Estimated == read.pc = "done" /\ ~read.outcome.threw

\* The price field the plan is charged at and the fee it was computed from.
PlanPrice == EffectivePrice(read.outcome.value)

BasePrice == EffectivePrice(read.feeData)

\* C21: with strategy custom the multiplier applied to the price fields lies
\* between 1 and 10, whatever multiplier the caller supplies: the price of the
\* plan is between 1 and 10 times the fee the network quoted.
C21_CustomMultiplierBounded ==
  (Estimated /\ read.gasStrategy = "custom") =>
    /\ Multiplier(read.gasStrategy, read.customGasConfig) \in 10..100
    /\ PlanPrice >= BasePrice
    /\ PlanPrice <= 10 * BasePrice

\* C22: a gas plan computed with the rescue flag set has its price fields
\* multiplied by at least 5 (here: estimateSilenceGas, for a plan computed from
\* the network's answers).
C22_RescueFloor ==
  (silence.pc = "done" /\ ~silence.fails /\ silence.gasConfig.rescueMode) =>
    /\ SilenceMultiplier(silence.gasConfig) >= 50
    /\ EffectivePrice(silence.plan) >= 5 * EffectivePrice(silence.feeData)

\* The plan of the settled estimate's call under another strategy: the same
\* fee data and the same gas limit.
PlanUnder(gasStrategy) ==
  GasEstimateOf(read.outcome.value.gasLimit, read.feeData, gasStrategy, read.customGasConfig)

\* Every per-unit fee field and the total cost of g are at least those of h.
FeesAtLeast(g, h) ==
  /\ g.gasPrice >= h.gasPrice
  /\ g.maxFeePerGas >= h.maxFeePerGas
  /\ g.maxPriorityFeePerGas >= h.maxPriorityFeePerGas
  /\ g.totalCost >= h.totalCost

NamedStrategy == read.gasStrategy \in {"fast", "standard", "safe"}

SettledCalls == {i \in DOMAIN verifier.calls : verifier.calls[i].settled}

\* C24: verifyTransaction never raises; when the lookup answers no receipt or
\* fails, the status is failed (isFailed, not isConfirmed) with an error reason.
C24_VerifyNeverRaises ==
  \A i \in SettledCalls :
    LET call == verifier.calls[i]
    IN /\ ~call.outcome.threw
       /\ call.answer.kind \in {"null", "rejects"} =>
            /\ call.outcome.value.isFailed
            /\ ~call.outcome.value.isConfirmed
            /\ call.outcome.value.error # {}

\* One lookup timed out with a rejection and one answered null.
C24_Witness ==
  /\ \E i \in SettledCalls : verifier.calls[i].answer.kind = "rejects"
                               /\ verifier.calls[i].outcome.value.isFailed
  /\ \E i \in SettledCalls : verifier.calls[i].answer.kind = "null"

\* C25: the map verifyTransactions returns has an entry for exactly the input
\* hashes, and each entry is the status verifyTransaction gives for one lookup
\* of that hash, whatever the other lookups answered and in whatever order they
\* settled.
C25_BatchIsPerHash ==
  verifier.pc = "done" =>
    \A h \in TxHashes :
      /\ verifier.returned[h].present <=> h \in Range(verifier.txHashes)
      /\ verifier.returned[h].present =>
           \E i \in DOMAIN verifier.txHashes :
             /\ verifier.txHashes[i] = h
             /\ verifier.calls[i].settled
             /\ verifier.returned[h].status = verifyTransaction(verifier.calls[i].answer).value

\* Two hashes, the second settled first and failed, the first was confirmed.
C25_Witness ==
  /\ verifier.pc = "done"
  /\ verifier.txHashes = <<"0xa", "0xb">>
  /\ verifier.order = <<2, 1>>
  /\ verifier.returned["0xb"].status.isFailed
  /\ verifier.returned["0xa"].status.isConfirmed

(***************************************************************************)
(* Properties of the store of validated contracts.                         *)
(***************************************************************************)
Validated == contracts.call.pc = "done"

\* The record found at the start of the call was for this network, valid, and
\* younger than 24 hours.
FoundFresh ==
  LET before == contracts.call.before
  IN /\ before.present
     /\ before.networkId = Polygon
     /\ before.isValid
     /\ (contracts.call.startedAt - before.validatedAt) * HoursPerTick < 24

\* C26: validateAndCacheContract returns the stored result without an on-chain
\* probe exactly when the record for the address and network is valid and
\* younger than 24 hours; otherwise it probes and overwrites the record, with the
\* time of the store.
C26_StoredResultWhileFresh ==
  Validated =>
    /\ contracts.call.served <=> FoundFresh
    /\ contracts.call.served =>
         /\ ~contracts.call.probed
         /\ contracts.call.result = ResultOfContract(contracts.call.before)
    /\ ~contracts.call.served =>
         /\ contracts.call.probed
         /\ contracts.call.after.present
         /\ contracts.call.after.isValid = contracts.call.result.isValid
         /\ contracts.call.after.networkId = Polygon
         /\ contracts.call.after.validatedAt = contracts.call.settledAt

\* A valid record of this network that had reached 24 hours was probed again.
C26_Witness ==
  /\ Validated
  /\ contracts.call.probed
  /\ contracts.call.before.present
  /\ contracts.call.before.isValid
  /\ contracts.call.before.networkId = Polygon
  /\ contracts.call.startedAt - contracts.call.before.validatedAt = 2
  /\ contracts.call.after.validatedAt = contracts.call.settledAt

\* C27: records are keyed by lower-case address and network id: a store for one
\* network leaves the record of the same address on the other network unchanged
\* and retrievable.
C27_StorePerNetwork ==
  [][\A address \in ContractAddresses : \A networkId \in NetworkIds :
       \A other \in NetworkIds \ {networkId} :
         (\E result \in ValidationResults : StoreValidatedContract(address, result, networkId))
           => getValidatedContractInfo(contracts'.store, address, other)
                = getValidatedContractInfo(contracts.store, address, other)]_vars

(***************************************************************************)
(* Properties of the end of the retries.                                   *)
(***************************************************************************)
\* retryWithBackoff has ended on a rate-limit failure: its retries are used up.
ReadExhausted ==
  /\ read.pc = "done"
  /\ read.outcome.threw
  /\ isRateLimitError(read.lastError)

\* C28: when the retries are used up, the error raised is the classified
\* terminal one and it carries the last underlying cause (here, on the read
\* path: the message of the last failure is part of the raised error).
C28_TerminalErrorWrapsCause ==
  ReadExhausted =>
    /\ read.thrown.isError
    /\ RateLimitExhausted.message \subseteq read.thrown.message
    /\ read.lastError.message \subseteq read.thrown.message

\* C29: the retry that follows a rate-limit failure and its backoff is
\* dispatched to another endpoint than the failed attempt.
C29_RetryOnAnotherEndpoint ==
  \A i \in 2..Len(read.endpoints) :
    isRateLimitError(read.failures[i - 1]) => read.endpoints[i] # read.endpoints[i - 1]

(***************************************************************************)
(* Properties of monitorBalance.                                           *)
(***************************************************************************)
\* C30: once the stop function has been called no polling iteration starts: the
\* monitor issues no further read; the iteration in flight at that moment is not
\* cancelled, it ends on its own.
C30_NoReadAfterStop ==
  monitor.stopped =>
    /\ monitor.reads = monitor.readsAtStop
    /\ monitor.stoppedAt = "reading" => monitor.pc \in {"reading", "ended"}
    /\ monitor.stoppedAt = "timer" => monitor.pc \in {"timer", "ended"}

\* The stop function was called while a timer was pending, after two
\* iterations; the timer has fired since.
C30_Witness ==
  /\ monitor.stopped
  /\ monitor.stoppedAt = "timer"
  /\ monitor.pc = "ended"
  /\ monitor.reads = 2

(***************************************************************************)
(* Properties of the maximum native transfer.                              *)
(***************************************************************************)
NativeMax ==
  maxTransfer.pc = "done" /\ ~maxTransfer.outcome.threw /\ maxTransfer.transferType = "native"

\* C31: for a native transfer, when balance > totalCost the result has
\* maxAmount = balance - totalCost and canTransfer true; when balance <= totalCost
\* it has maxAmount 0 and canTransfer false.
C31_NativeMaxIsBalanceLessCost ==
  NativeMax =>
    LET r == maxTransfer.outcome.value
        balanceWei == parseEther(maxTransfer.nativeBalance)
        totalCost == r.gasEstimate.totalCost
    IN /\ balanceWei > totalCost =>
            r.canTransfer /\ r.maxAmount = formatEther(balanceWei - totalCost)
       /\ balanceWei <= totalCost =>
            ~r.canTransfer /\ r.maxAmount = Decimal(FALSE, 0, 0)

\* The largest balance with a positive cost below it: what is left is the
\* difference.
C31_Witness ==
  /\ NativeMax
  /\ parseEther(maxTransfer.nativeBalance) = 200
  /\ maxTransfer.outcome.value.gasEstimate.totalCost > 0
  /\ maxTransfer.outcome.value.canTransfer
  /\ parseEther(maxTransfer.outcome.value.maxAmount)
       = 200 - maxTransfer.outcome.value.gasEstimate.totalCost

(***************************************************************************)
(* Properties of the read-path backoff.                                    *)
(***************************************************************************)
\* C32: the delay taken before retry number n (n = 0, 1, 2, ...) of the read
\* path is min(1000 * 2^n, 30000) ms: 1000, 2000, 4000 ms, never above 30000.
C32_BackoffDelays ==
  /\ \A i \in DOMAIN read.delays :
       /\ read.delays[i] = (IF 1000 * 2 ^ (i - 1) < 30000 THEN 1000 * 2 ^ (i - 1) ELSE 30000)
       /\ read.delays[i] <= 30000
  /\ Len(read.delays) >= 1 => read.delays[1] = 1000
  /\ Len(read.delays) >= 2 => read.delays[2] = 2000
  /\ Len(read.delays) >= 3 => read.delays[3] = 4000

\* Three rate-limit failures, three delays.
C32_Witness == Len(read.delays) = 3 /\ read.pc = "backoff"

(***************************************************************************)
(* Further properties of the transaction verifier.                         *)
(***************************************************************************)
\* C33: every result of verifyTransaction is exactly one of confirmed or
\* failed: isConfirmed and isFailed are never both true and never both false.
C33_ConfirmedOrFailed ==
  \A i \in SettledCalls :
    verifier.calls[i].outcome.value.isConfirmed # verifier.calls[i].outcome.value.isFailed

(***************************************************************************)
(* Properties of the balance read's purge.                                 *)
(***************************************************************************)
\* The step in which a balance read starts, through either getBalance.
BalanceReadStarts ==
  /\ CallStarts
  /\ ev'.kind \in {"call", "noNodes"}
  /\ ev'.call.api \in {"getBalance", "BlockchainService.getBalance"}

\* C34: a balance read purges only cached balance entries: the cached entries
\* of the other operations (fee data, token info) are the same after it.
C34_BalanceReadPurgesOnlyBalances ==
  [][BalanceReadStarts =>
       \A k \in DOMAIN cache :
         k[1] \notin {"getBalance", "getTokenBalance"} =>
           k \in DOMAIN cache' /\ cache'[k] = cache[k]]_vars

(***************************************************************************)
(* Properties of the throttle's queue.                                     *)
(***************************************************************************)
\* C35: when every admitted network call eventually completes, every caller
\* the throttle has queued is eventually admitted.
C35_QueuedEventuallyAdmitted ==
  \A c \in 1..(MaxActive + MaxQueued) :
    (c \in Started /\ procs[c].pc = "queued") ~> (c \in Started /\ procs[c].pc = "admitted")

\* The caller that arrived while the first MaxActive callers held every slot
\* has been admitted, and all of them are still in progress.
C35_Witness ==
  /\ (MaxActive + 1) \in Started
  /\ procs[MaxActive + 1].pc = "admitted"
  /\ \A c \in 1..MaxActive : procs[c].pc # "done"

\* The attempts that have taken a slot and not yet run their finally block.
SlotHolders == {c \in Started : procs[c].pc \in {"admitted", "inflight"}}

\* C36: activeRequests stays within 0..5 and counts exactly the admitted
\* attempts that have not released their slot (each releases it once, on success
\* and on failure); the wait queue is non-empty only while the count is 5; the
\* count is 0 whenever no executeRequest is in progress.
C36_ThrottleCount ==
  /\ activeRequests \in 0..5
  /\ activeRequests = Cardinality(SlotHolders)
  /\ requestQueue # <<>> => activeRequests = 5
  /\ InProgress = {} => activeRequests = 0

\* Callers wait on a full throttle after some attempt has released its slot.
C36_Witness ==
  /\ requestQueue # <<>>
  /\ activeRequests = 5
  /\ failedAttempts > 0
  /\ \E c \in Started : procs[c].pc = "done"

(***************************************************************************)
(* Further properties of the endpoints.                                    *)
(***************************************************************************)
\* C37: an endpoint whose health flag is true has an error counter of at most
\* 2, and no error counter is negative.
C37_HealthyCounterBelowThree ==
  \A n \in NodeIds :
    /\ nodes[n].isHealthy => nodes[n].errorCount <= 2
    /\ nodes[n].errorCount >= 0

\* The first endpoint is healthy with two errors counted; the second has
\* failed once and answered once since.
C37_Witness ==
  /\ nodes[1].isHealthy
  /\ nodes[1].errorCount = 2
  /\ nodes[2].errorCount = 0
  /\ failedAttempts >= 3

\* C38: executeRequest puts no network call on an endpoint whose health flag
\* is false at the moment of the dispatch.
C38_DispatchOnlyToHealthy ==
  [][\A c \in Started :
       (procs[c].pc = "admitted" /\ procs'[c].pc = "inflight") =>
         nodes[procs[c].cands[procs[c].idx]].isHealthy]_vars

\* C39: after the stop function has been called the callback is not invoked
\* again, also not for the iteration whose reads were in flight at that moment.
\* (At most one iteration is scheduled or running: pc holds one position.)
C39_NoCallbackAfterStop ==
  monitor.stopped => monitor.callbacks = monitor.callbacksAtStop

\* The runs of the interval callback between their start and the end of
\* their transfer and its refresh, and those awaiting transfer().
ChecksInProgress ==
  {i \in AutoTicks : auto.ticks[i].pc \in {"refreshing", "initializing", "transferring", "finalRefresh"}}

TransfersInProgress == {i \in AutoTicks : auto.ticks[i].pc = "transferring"}

\* C40: while monitoring with auto-transfer runs, at most one monitoring check
\* and at most one automatic transfer are in progress at any time; two
\* transfers of the same balance are never in progress together.
C40_OneCheckOneTransfer ==
  (auto.isMonitoring /\ auto.autoTransfer) =>
    /\ Cardinality(ChecksInProgress) <= 1
    /\ Cardinality(TransfersInProgress) <= 1
    /\ \A i, j \in TransfersInProgress :
         i # j => auto.ticks[i].currentBalance # auto.ticks[j].currentBalance

====
